---- MODULE Spec2Model ----
(***************************************************************************)
(* A model of the rankcard library: the builder RankCard of src/index.ts   *)
(* (and its compiled twin lib/index.js), the CardGenerator of src/index.ts *)
(* and the generator-driven RankCard of unnamed/part_000.                  *)
(*                                                                         *)
(* Numbers that the code computes with fractions (pixel widths, alpha)     *)
(* are exact rationals [n, d]; d = 0 stands for the two IEEE results of a  *)
(* division by zero (n > 0: Infinity, n = 0: NaN).  Texts are sequences of *)
(* one-character strings so that substr, trim and concatenation are        *)
(* computed, colours and identifiers are plain strings.                    *)
(***************************************************************************)
EXTENDS Integers, Sequences, FiniteSets, TLC

\* ------------------------------------------------------------------ bounds
MaxLen == 4
MaxLevel == 5
MaxOffset == 2
MaxSetterCalls == 2
MaxBuilds == 1
MaxOverlap == 2
MaxPieces == 2
MaxStops == 3

\* --------------------------------------------------------------- rationals
Rat(n, d) == [n |-> n, d |-> d]
RatInt(i) == Rat(i, 1)
IsFinite(x) == x.d > 0
IsNaN(x) == x.d = 0 /\ x.n = 0
RatEq(x, y) == IsFinite(x) /\ IsFinite(y) /\ x.n * y.d = y.n * x.d
RatLE(x, y) == IsFinite(x) /\ IsFinite(y) /\ x.n * y.d <= y.n * x.d
\* JavaScript's x > y : false when either side is NaN, Infinity above all
RatGT(x, y) ==
    IF IsNaN(x) \/ IsNaN(y) THEN FALSE
    ELSE IF ~IsFinite(y) THEN FALSE
    ELSE IF ~IsFinite(x) THEN TRUE
    ELSE x.n * y.d > y.n * x.d
RatAdd(x, y) ==
    IF IsFinite(x) /\ IsFinite(y) THEN Rat(x.n * y.d + y.n * x.d, x.d * y.d)
    ELSE IF IsNaN(x) \/ IsNaN(y) THEN Rat(0, 0)
    ELSE Rat(1, 0)
\* for non-negative operands: 0 * Infinity = NaN, x * Infinity = Infinity
RatMul(x, y) ==
    IF IsNaN(x) \/ IsNaN(y) THEN Rat(0, 0)
    ELSE IF IsFinite(x) /\ IsFinite(y) THEN Rat(x.n * y.n, x.d * y.d)
    ELSE IF x.n = 0 \/ y.n = 0 THEN Rat(0, 0)
    ELSE Rat(1, 0)
\* JavaScript's a / b on non-negative integers
JsDiv(a, b) ==
    IF b > 0 THEN Rat(a, b)
    ELSE IF a > 0 THEN Rat(1, 0)
    ELSE Rat(0, 0)
RatSub(x, y) == RatAdd(x, Rat(0 - y.n, y.d))
InRange(x, lo, hi) == RatLE(lo, x) /\ RatLE(x, hi)

\* ------------------------------------------------------------------- texts
Undefined == "undefined"
Chars == {"a", " ", "."}
AccentedChars == {"A"}
InputChars == Chars \cup AccentedChars
IsSpace(ch) == ch = " "
Dots == <<".", ".", ".">>

TextsUpTo(chars, k) == UNION {[1..m -> chars] : m \in 0..k}

RECURSIVE trimStart(_)
trimStart(t) ==
    IF t = <<>> THEN <<>>
    ELSE IF IsSpace(Head(t)) THEN trimStart(Tail(t))
    ELSE t

RECURSIVE trimEnd(_)
trimEnd(t) ==
    IF t = <<>> THEN <<>>
    ELSE IF IsSpace(t[Len(t)]) THEN trimEnd(SubSeq(t, 1, Len(t) - 1))
    ELSE t

trim(t) == trimEnd(trimStart(t))

\* String.prototype.substr(0, len) for len >= 0
substr0(t, len) == SubSeq(t, 1, IF len < Len(t) THEN len ELSE Len(t))

shorten_noTrim(text, len) ==
    IF Len(text) <= len THEN text
    ELSE substr0(text, len) \o Dots

shorten(text, len) ==
    IF Len(text) <= len THEN text
    ELSE trim(substr0(text, len)) \o Dots

\* the accents package: replaces an accented letter by its base letter
accentsChar(ch) == IF ch = "A" THEN "a" ELSE ch
accents(t) == [i \in 1..Len(t) |-> accentsChar(t[i])]

\* number-abbreviate: 1000 and above are shown in thousands with a unit
abbreviate(n) ==
    IF n < 0
    THEN (IF 0 - n < 1000 THEN <<n>> ELSE <<0 - ((0 - n) \div 1000), "k">>)
    ELSE IF n < 1000 THEN <<n>>
    ELSE <<n \div 1000, "k">>

\* an optional argument or field: None when omitted, Some(v) when given
None == <<>>
Some(v) == <<v>>
IsSome(o) == o # <<>>
Get(o) == o[1]
\* the ?? operator
OrElse(o, dflt) == IF IsSome(o) THEN Get(o) ELSE dflt
Truthy_supplied(o) == IsSome(o)

\* truthiness of an optional number: undefined and 0 are falsy
Truthy(o) == IsSome(o) /\ Get(o) # 0

\* a progress-bar value is string | string[]: one colour or a list of stops
OneColour(c) == [colour |-> c]
ColourList(l) == [stops |-> l]

\* ----------------------------------------------------------- colour tables
KnownStatuses == {"online", "idle", "dnd", "offline", "streaming"}
\* discord.js PresenceStatus also has 'invisible'
PresenceStatuses == KnownStatuses \cup {"invisible"}

\* a property read on a plain object: undefined for a missing key
Lookup(table, key) == IF key \in DOMAIN table THEN table[key] ELSE Undefined

STATUS_COLOURS ==
    [online |-> "#43b581", idle |-> "faa61a", dnd |-> "#f04747",
     offline |-> "#747f8e", streaming |-> "#593595"]

\* the literal defaults of the CardGenerator constructor
GeneratorDefaultColours ==
    [online |-> "#43b581", idle |-> "#faa61a", dnd |-> "#f04747",
     offline |-> "#747f8e", streaming |-> "#593595"]

\* ------------------------------------------------------------------ inputs
Levels == 0..MaxLevel
\* xpForLevel callbacks: rising and falling lines, among them n |-> 100 n
Slopes == {0, 1, 100}
XPFunctions ==
    {[n \in 0..(MaxLevel + 1) |-> a * n + b] : a \in Slopes, b \in 0..MaxOffset}
    \cup {[n \in 0..(MaxLevel + 1) |-> IF b >= a * n THEN b - a * n ELSE 0] :
             a \in Slopes, b \in 0..MaxOffset}
Linear100 == [n \in 0..(MaxLevel + 1) |-> 100 * n]

LyonsFont == [path |-> "assets/lyons.ttf", family |-> "Lyons"]
NeutraFont == [path |-> "assets/neutra.otf", family |-> "Neutra"]
CustomFont == [path |-> "custom.ttf", family |-> "Custom"]
FontLists == {<<>>, <<CustomFont>>, <<CustomFont, CustomFont>>}

DefaultUsernameLength == 15

\* the Input object of the builder RankCard; member is the GuildMember
MkInput(username, status, level, xpFor, rank, fonts, usernameLength, strip) ==
    [member |-> [username |-> username,
                 discriminator |-> <<"0", "0", "0", "1">>,
                 avatarURL |-> "avatar.png", status |-> status],
     level |-> level, xpForLevel |-> xpFor, rank |-> rank, fonts |-> fonts,
     usernameLength |-> usernameLength, stripAccents |-> strip]

TestName == <<"a", "a">>

\* inputs that vary one group of arguments at a time
TextInputs ==
    {MkInput(u, "online", 5, Linear100, Some(3), None, l, s) :
        u \in TextsUpTo(InputChars, MaxLen),
        l \in {None} \cup {Some(k) : k \in 0..MaxLen},
        s \in BOOLEAN}
XPInputs ==
    {MkInput(TestName, "online", lv, f, Some(3), None, None, FALSE) :
        lv \in Levels, f \in XPFunctions}
MemberInputs ==
    {MkInput(TestName, st, 5, Linear100, r, fs, None, FALSE) :
        st \in PresenceStatuses,
        r \in {None, Some(0), Some(3)},
        fs \in {None} \cup {Some(l) : l \in FontLists}}
WideInputs == TextInputs \cup XPInputs \cup MemberInputs

\* what a caller can pass although the documentation asks for non-negative
\* numbers: a level of -1, a rank of -3, an xpForLevel that goes below zero
SignedLinear(a, b) == [n \in (0 - 1)..(MaxLevel + 1) |-> a * n + b]
InputIsValid(i) ==
    /\ i.level >= 0
    /\ IsSome(i.rank) => Get(i.rank) >= 0
    /\ i.xpForLevel[i.level] >= 0
    /\ i.xpForLevel[i.level + 1] >= 0
InvalidInputs ==
    {i \in {MkInput(TestName, "online", lv, SignedLinear(a, b), r, None,
                     None, FALSE) :
                lv \in {0 - 1, 2}, a \in {100}, b \in {0 - 3, 1},
                r \in {None, Some(0 - 3), Some(3)}} :
        ~InputIsValid(i)}

\* the GeneratorConfig a bot would build from the same settings
GeneratorConfigOf(input, colours) ==
    [stripAccents |-> IF input.stripAccents THEN Some(TRUE) ELSE None,
     tagLength |-> input.usernameLength,
     fonts |-> input.fonts,
     xpForLevel |-> input.xpForLevel,
     fileName |-> None,
     statusColours |-> colours]
\* statusColours as a caller may pass them: omitted, or some keys given,
\* possibly as undefined
PartialColours ==
    {None, Some([k \in {} |-> ""]), Some([online |-> "#fc85e7"]),
     Some([online |-> Undefined, idle |-> "#123456"]),
     Some([online |-> "#fc85e7", idle |-> "#faa61a", dnd |-> "#f04747",
           offline |-> "#747f8e", streaming |-> "#593595"])}

\* ------------------------------------------------- RankCard (src/index.ts)
\* the registerFont calls of the constructor, in order
RankCardFonts(input) ==
    IF IsSome(input.fonts) /\ Len(Get(input.fonts)) > 0
    THEN Get(input.fonts)
    ELSE <<LyonsFont>>

RankCard(input) ==
    LET member == input.member
        parsedUsername ==
            shorten(member.username,
                    OrElse(input.usernameLength, DefaultUsernameLength))
    IN [width |-> 934,
        height |-> 282,
        background |-> [type |-> "colour", value |-> "#23272a"],
        progressBar |->
            [rounded |-> TRUE, x |-> Rat(551, 2), y |-> Rat(735, 4),
             height |-> Rat(75, 2), width |-> Rat(1193, 2),
             track |-> [colour |-> "#484b4e"],
             bar |-> [type |-> "colour", value |-> OneColour("#ffffff")]],
        avatar |-> [source |-> member.avatarURL, x |-> 70, y |-> 50,
                    height |-> 180, width |-> 180],
        status |-> [width |-> 5, type |-> member.status,
                    colour |-> Lookup(STATUS_COLOURS, member.status),
                    circle |-> FALSE],
        rank |-> [display |-> Truthy(input.rank), data |-> input.rank,
                  colour |-> "#ffffff", displayText |-> "Rank", size |-> 54],
        level |-> [display |-> TRUE, data |-> input.level,
                   colour |-> "#ffffff", displayText |-> "Level", size |-> 54],
        overlay |-> [display |-> TRUE, level |-> Rat(1, 2),
                     colour |-> "#333640"],
        currentXP |-> [data |-> input.xpForLevel[input.level],
                       colour |-> "#ffffff", size |-> 48],
        requiredXP |-> [data |-> input.xpForLevel[input.level + 1],
                        colour |-> "#ffffff", size |-> 48],
        discriminator |-> [data |-> member.discriminator,
                           colour |-> "#ffffff", size |-> 60],
        username |-> [data |-> IF input.stripAccents
                               THEN accents(parsedUsername)
                               ELSE parsedUsername,
                      colour |-> "#ffffff", size |-> 60]]

ProgressScale == 615

calculateProgress(d) ==
    LET cx == d.currentXP.data
        rx == d.requiredXP.data
        width == Rat(cx * ProgressScale, rx)
    IN IF rx <= 0 THEN RatInt(1)
       ELSE IF cx > rx THEN d.progressBar.width
       ELSE IF RatGT(width, d.progressBar.width) THEN d.progressBar.width
       ELSE width

\* ---------------------------------------------- CardGenerator (src/index.ts)
\* the registerFont calls of the constructor, in order
CardGeneratorFonts(config) ==
    <<NeutraFont>> \o
    (IF IsSome(config.fonts) /\ Len(Get(config.fonts)) > 0
     THEN Get(config.fonts) ELSE <<>>)

CardGenerator_objectDefault(config) ==
    [config EXCEPT
        !.statusColours =
            Some(OrElse(config.statusColours, GeneratorDefaultColours)),
        !.fileName = Some(OrElse(config.fileName, "RankCard.png"))]

\* this.config after the constructor has filled in the defaults
CardGenerator(config) ==
    LET given == OrElse(config.statusColours, GeneratorDefaultColours)
        filled == [k \in KnownStatuses |->
                     IF k \in DOMAIN given /\ given[k] # Undefined
                     THEN given[k] ELSE GeneratorDefaultColours[k]]
    IN [config EXCEPT !.statusColours = Some(filled),
                      !.fileName = Some(OrElse(config.fileName, "RankCard.png"))]

statusColours_replace(gen, colours) ==
    [gen EXCEPT !.statusColours = Some(colours)]

\* the statusColours setter: `for (const key in colours)` copies each key of
\* the argument into this.config.statusColours
statusColours_set(gen, colours) ==
    LET old == Get(gen.statusColours)
    IN [gen EXCEPT !.statusColours =
           Some([k \in DOMAIN old \cup DOMAIN colours |->
                    IF k \in DOMAIN colours THEN colours[k] ELSE old[k]])]

\* ------------------------------------------- RankCard (unnamed/part_000)
\* the CardConfig that generateCard passes to the constructor
CardConfigOf(gen, cardData) ==
    [level |-> cardData.level, member |-> cardData.member,
     rank |-> cardData.rank,
     statusColours |-> Get(gen.statusColours),
     stripAccents |-> gen.stripAccents,
     tagLength |-> gen.tagLength,
     xpForLevel |-> gen.xpForLevel]

GeneratorRankCard(config) ==
    LET member == config.member
    IN [width |-> 932,
        height |-> 284,
        tagLength |-> config.tagLength,
        stripAccents |-> config.stripAccents,
        background |-> [type |-> "colour", value |-> "#23272a"],
        progress |->
            [display |-> TRUE,
             currentXP |-> config.xpForLevel[config.level],
             requiredXP |-> config.xpForLevel[config.level + 1],
             fontSize |-> 36, fontColour |-> "#ffffff",
             x |-> 275, y |-> 154, height |-> 37, width |-> 580,
             bar |-> [rounded |-> TRUE, trackColour |-> "#484b4e",
                      colour |-> [type |-> "colour",
                                  value |-> OneColour("#ffffff")],
                      radius |-> 18]],
        avatar |-> [value |-> member.avatarURL, display |-> TRUE,
                    x |-> 35, y |-> 45, height |-> 180, width |-> 180,
                    radius |-> 100],
        status |-> [display |-> TRUE, width |-> 5, type |-> member.status,
                    colour |-> Lookup(config.statusColours, member.status),
                    circle |-> FALSE],
        overlay |-> [display |-> TRUE, opacity |-> Rat(1, 2),
                     colour |-> "#333640"],
        level |-> [value |-> config.level, fontColour |-> "#ffffff",
                   fontSize |-> 36, display |-> TRUE],
        rank |-> [value |-> config.rank, fontColour |-> "#ffffff",
                  fontSize |-> 36, display |-> Truthy(config.rank)],
        tag |-> [display |-> TRUE, fontColour |-> "#ffffff", fontSize |-> 42,
                 username |-> member.username,
                 discriminator |-> member.discriminator]]

\* (currentXP / requiredXP) * width, in IEEE arithmetic
GeneratorRankCard_calculateProgress(g) ==
    RatMul(JsDiv(g.progress.currentXP, g.progress.requiredXP),
           RatInt(g.progress.width))

\* render(), `Canvas.createCanvas(this.width, this.height)`: the size of the
\* canvas that the generator card is drawn on
GeneratorRankCard_canvasSize(g) == [width |-> g.width, height |-> g.height]

\* ---------------------------------------------- RankCard (lib/index.d.ts)
\* the variant with toggleDisplay: its colour table has '#faa61a' for idle
Toggle_STATUS_COLOURS ==
    [online |-> "#43b581", idle |-> "#faa61a", dnd |-> "#f04747",
     offline |-> "#747f8e", streaming |-> "#593595"]

\* type Pieces: the names toggleDisplay accepts
Pieces ==
    {"progress", "avatar", "status", "overlay", "level", "rank", "tag"}

\* the registerFont calls of the constructor, in order
ToggleRankCardFonts(input) ==
    IF IsSome(input.fonts) /\ Len(Get(input.fonts)) > 0
    THEN Get(input.fonts)
    ELSE <<NeutraFont>>

\* this._data after the constructor
ToggleRankCard(input) ==
    LET member == input.member
        short == shorten(member.username,
                         OrElse(input.usernameLength, DefaultUsernameLength))
        username == IF input.stripAccents THEN accents(short) ELSE short
    IN [width |-> 934,
        height |-> 282,
        background |-> [type |-> "colour", value |-> "#23272a"],
        progress |->
            [display |-> TRUE,
             currentXP |-> input.xpForLevel[input.level],
             requiredXP |-> input.xpForLevel[input.level + 1],
             fontSize |-> 42, fontColour |-> "#ffffff",
             x |-> 275, y |-> 154, height |-> Rat(75, 2), width |-> 580,
             bar |-> [rounded |-> TRUE, trackColour |-> "#484b4e",
                      colour |-> [type |-> "colour",
                                  value |-> OneColour("#ffffff")],
                      radius |-> Rat(37, 2)]],
        avatar |-> [value |-> member.avatarURL, display |-> TRUE,
                    x |-> 35, y |-> 45, height |-> 180, width |-> 180,
                    radius |-> 100],
        status |-> [display |-> TRUE, width |-> 5, type |-> member.status,
                    colour |-> Lookup(Toggle_STATUS_COLOURS, member.status),
                    circle |-> FALSE],
        overlay |-> [display |-> TRUE, opacity |-> Rat(1, 2),
                     colour |-> "#333640"],
        level |-> [value |-> input.level, fontColour |-> "#ffffff",
                   fontSize |-> 42, display |-> TRUE],
        rank |-> [value |-> input.rank, fontColour |-> "#ffffff",
                  fontSize |-> 42, display |-> Truthy(input.rank)],
        tag |-> [display |-> TRUE, fontColour |-> "#ffffff", fontSize |-> 48,
                 username |-> username,
                 discriminator |-> member.discriminator]]

togglePiece_hide(d, piece) == [d EXCEPT ![piece].display = FALSE]

\* the forEach callback: this._data[piece].display = !this._data[piece].display
togglePiece(d, piece) == [d EXCEPT ![piece].display = ~@]

\* toggleDisplay(...pieces): the callback for each argument, left to right
RECURSIVE toggleDisplay(_, _)
toggleDisplay(d, pieces) ==
    IF pieces = <<>> THEN d
    ELSE toggleDisplay(togglePiece(d, Head(pieces)), Tail(pieces))

\* ------------------------------------------------- the 2D drawing context
R(i) == RatInt(i)
\* ctx.font: `${size}px ${family}` or `bold ${size}px ${family}`
Font(bold, size, family) == [bold |-> bold, size |-> size, family |-> family]

\* the state of a fresh CanvasRenderingContext2D
NewContext ==
    [globalAlpha |-> R(1), fillStyle |-> OneColour("#000000"),
     strokeStyle |-> OneColour("#000000"),
     font |-> Font(FALSE, 10, "sans-serif"),
     textAlign |-> "start", lineWidth |-> R(1), stack |-> <<>>]

SavedState(ctx) == [ctx EXCEPT !.stack = <<>>]

createCanvas_shared(id, width, height) ==
    [id |-> 1, width |-> width, height |-> height]

\* Canvas.createCanvas(width, height): a new canvas object, here the id-th
\* one that the process allocates
createCanvas(id, width, height) ==
    [id |-> id, width |-> width, height |-> height]

\* canvas.getContext('2d'): the context of that canvas, in its fresh state
getContext(canvas) == [c \in {"canvas"} |-> canvas.id] @@ NewContext

\* ctx.measureText(text).width: grows with the text, its size and weight
measureText(font, text) ==
    Rat(Len(text) * font.size * (IF font.bold THEN 3 ELSE 2), 4)

\* one statement of build(): an assignment to a ctx property or a ctx call
SetI(prop, v) == [k |-> "set", prop |-> prop, v |-> v]
CallI(stage, part, name, args) ==
    [k |-> "call", stage |-> stage, part |-> part, name |-> name,
     args |-> args]

\* a call as the canvas sees it: with the alpha and styles then in force
Drawn(ctx, ins) ==
    [stage |-> ins.stage, part |-> ins.part, name |-> ins.name,
     args |-> ins.args, canvas |-> ctx.canvas,
     globalAlpha |-> ctx.globalAlpha,
     fillStyle |-> ctx.fillStyle, strokeStyle |-> ctx.strokeStyle,
     font |-> ctx.font, textAlign |-> ctx.textAlign]

Exec(b, ins) ==
    IF ins.k = "set" THEN [b EXCEPT !.ctx[ins.prop] = ins.v]
    ELSE LET logged == [b EXCEPT !.ops = Append(@, Drawn(b.ctx, ins))]
         IN IF ins.name = "save"
            THEN [logged EXCEPT !.ctx.stack = Append(@, SavedState(b.ctx))]
            ELSE IF ins.name = "restore" /\ b.ctx.stack # <<>>
            THEN [logged EXCEPT
                    !.ctx = [b.ctx.stack[Len(b.ctx.stack)] EXCEPT
                               !.stack = SubSeq(b.ctx.stack, 1,
                                                Len(b.ctx.stack) - 1)]]
            ELSE logged

RECURSIVE Run(_, _)
Run(b, instrs) ==
    IF instrs = <<>> THEN b
    ELSE Run(Exec(b, Head(instrs)), Tail(instrs))

\* ------------------------------------------- RankCard.build (src/index.ts)
DefaultBuildFonts == [bold |-> "Lyons", regular |-> "Lyons"]
BuildFontArgs == {None, Some([bold |-> "Custom", regular |-> "Custom"])}

DigitChars == <<"0", "1", "2", "3", "4", "5", "6", "7", "8", "9">>
RECURSIVE Digits(_)
Digits(n) ==
    IF n < 0 THEN <<"-">> \o Digits(0 - n)
    ELSE IF n < 10 THEN <<DigitChars[n + 1]>>
    ELSE Digits(n \div 10) \o <<DigitChars[(n % 10) + 1]>>
\* abbreviate(n) as the text a template literal makes of it
abbreviateText(n) ==
    LET a == abbreviate(n)
    IN Digits(a[1]) \o (IF Len(a) > 1 THEN <<a[2]>> ELSE <<>>)
LevelText == <<"L", "e", "v", "e", "l">>
RankText == <<"R", "a", "n", "k">>
DisplayText(name) == IF name = "Level" THEN LevelText ELSE RankText
Label(piece, n) == DisplayText(piece.displayText) \o <<" ">> \o abbreviateText(n)

\* lines 453-462, case 'colour'
BackgroundColour(d, canvas) ==
    <<SetI("fillStyle", OneColour(d.background.value)),
      CallI("background", "colour", "fillRect",
            <<R(0), R(0), R(canvas.width), R(canvas.height)>>)>>

\* lines 455-457, after the await
BackgroundImage(d, canvas) ==
    <<CallI("background", "image", "drawImage",
            <<d.background.value, R(0), R(0), R(canvas.width),
              R(canvas.height)>>)>>

\* level || 1
OverlayAlpha(level) == IF level.n = 0 THEN R(1) ELSE level

OverlayFill_always(d, canvas) ==
    <<SetI("globalAlpha", OverlayAlpha(d.overlay.level)),
      SetI("fillStyle", OneColour(d.overlay.colour)),
      CallI("overlay", "fill", "fillRect",
            <<R(20), R(20), R(canvas.width - 40), R(canvas.height - 40)>>)>>

\* lines 464-469: the overlay is drawn only when it is displayed
OverlayFill(d, canvas) ==
    IF d.overlay.display
    THEN <<SetI("globalAlpha", OverlayAlpha(d.overlay.level)),
           SetI("fillStyle", OneColour(d.overlay.colour)),
           CallI("overlay", "fill", "fillRect",
                 <<R(20), R(20), R(canvas.width - 40),
                   R(canvas.height - 40)>>)>>
    ELSE <<>>

Overlay_noReset(d, canvas) == OverlayFill(d, canvas)

\* lines 464-472: the overlay, then `ctx.globalAlpha = 1`
Overlay(d, canvas) ==
    OverlayFill(d, canvas) \o <<SetI("globalAlpha", R(1))>>

\* lines 474-490
Texts(d, fonts) ==
    LET discFont == Font(FALSE, d.discriminator.size, fonts.regular)
    IN <<SetI("font", Font(FALSE, d.username.size, fonts.bold)),
         SetI("fillStyle", OneColour(d.username.colour)),
         SetI("textAlign", "start"),
         CallI("text", "username", "fillText",
               <<d.username.data, Rat(551, 2), R(164)>>),
         SetI("font", discFont),
         SetI("fillStyle", OneColour(d.discriminator.colour)),
         SetI("textAlign", "center"),
         CallI("text", "discriminator", "fillText",
               <<<<"#">> \o d.discriminator.data,
                 RatAdd(measureText(discFont, d.username.data), R(365)),
                 R(164)>>)>>

\* lines 492-497; angles are in units of pi
AvatarClip ==
    <<CallI("avatar", "clip", "save", <<>>),
      CallI("avatar", "clip", "beginPath", <<>>),
      CallI("avatar", "clip", "arc",
            <<R(135), R(145), R(100), R(0), R(2), TRUE>>),
      CallI("avatar", "clip", "closePath", <<>>),
      CallI("avatar", "clip", "clip", <<>>)>>

\* lines 500-501, after the await
AvatarImage(d) ==
    <<CallI("avatar", "image", "drawImage",
            <<d.avatar.source, R(35), R(45), R(d.avatar.width + 20),
              R(d.avatar.height + 20)>>),
      CallI("avatar", "image", "restore", <<>>)>>

\* lines 503-516
Status(d) ==
    IF d.status.circle
    THEN <<CallI("status", "dot", "beginPath", <<>>),
           SetI("fillStyle", OneColour(d.status.colour)),
           CallI("status", "dot", "arc",
                 <<R(215), R(205), R(20), R(0), R(2), FALSE>>),
           CallI("status", "dot", "fill", <<>>),
           CallI("status", "dot", "closePath", <<>>)>>
    ELSE <<CallI("status", "ring", "beginPath", <<>>),
           CallI("status", "ring", "arc",
                 <<R(135), R(145), R(100), R(0), R(2), TRUE>>),
           SetI("strokeStyle", OneColour(d.status.colour)),
           SetI("lineWidth", R(d.status.width)),
           CallI("status", "ring", "stroke", <<>>)>>

\* lines 518-530: the gradient calls, and the fill style they produce
GradientCalls(d) ==
    IF d.progressBar.bar.type = "gradient"
    THEN <<CallI("progressBar", "gradient", "createRadialGradient",
                 <<calculateProgress(d), R(0), R(500), R(0)>>)>>
         \o [i \in 1..Len(d.progressBar.bar.value.stops) |->
               CallI("progressBar", "gradient", "addColorStop",
                     <<R(i - 1), d.progressBar.bar.value.stops[i]>>)]
    ELSE <<>>

barColour(d) ==
    IF d.progressBar.bar.type = "gradient"
    THEN [gradient |-> <<calculateProgress(d), R(0), R(500), R(0)>>,
          stops |-> [i \in 1..Len(d.progressBar.bar.value.stops) |->
                       <<R(i - 1), d.progressBar.bar.value.stops[i]>>]]
    ELSE d.progressBar.bar.value

\* lines 532-573
ProgressBar(d) ==
    <<CallI("progressBar", "begin", "beginPath", <<>>)>> \o
    (IF d.progressBar.rounded
     THEN <<SetI("fillStyle", OneColour(d.progressBar.track.colour)),
            CallI("progressBar", "track", "arc",
                  <<Rat(551, 2), Rat(809, 4), Rat(37, 2), Rat(3, 2),
                    Rat(1, 2), TRUE>>),
            CallI("progressBar", "track", "fill", <<>>),
            CallI("progressBar", "track", "fillRect",
                  <<Rat(551, 2), Rat(735, 4), Rat(1193, 2), Rat(75, 2)>>),
            CallI("progressBar", "track", "arc",
                  <<R(872), Rat(809, 4), Rat(75, 4), Rat(3, 2), Rat(1, 2),
                    FALSE>>),
            CallI("progressBar", "track", "fill", <<>>),
            CallI("progressBar", "fill", "beginPath", <<>>),
            SetI("fillStyle", barColour(d)),
            CallI("progressBar", "fill", "arc",
                  <<Rat(551, 2), Rat(809, 4), Rat(37, 2), Rat(3, 2),
                    Rat(1, 2), TRUE>>),
            CallI("progressBar", "fill", "fill", <<>>),
            CallI("progressBar", "fill", "fillRect",
                  <<Rat(551, 2), Rat(735, 4), calculateProgress(d),
                    Rat(75, 2)>>),
            CallI("progressBar", "fill", "arc",
                  <<RatAdd(Rat(551, 2), calculateProgress(d)), Rat(809, 4),
                    Rat(75, 4), Rat(3, 2), Rat(1, 2), FALSE>>),
            CallI("progressBar", "fill", "fill", <<>>)>>
     ELSE LET pb == d.progressBar
          IN <<SetI("fillStyle", barColour(d)),
               CallI("progressBar", "fill", "fillRect",
                     <<pb.x, pb.y, calculateProgress(d), pb.height>>),
               CallI("progressBar", "track", "beginPath", <<>>),
               SetI("strokeStyle", OneColour(pb.track.colour)),
               SetI("lineWidth", R(7)),
               CallI("progressBar", "track", "strokeRect",
                     <<pb.x, pb.y, pb.width, pb.height>>)>>)

\* lines 575-580
LevelLabel(d, fonts) ==
    IF d.level.display
    THEN <<SetI("font", Font(FALSE, d.level.size, fonts.bold)),
           SetI("fillStyle", OneColour(d.level.colour)),
           CallI("level", "label", "fillText",
                 <<Label(d.level, d.level.data), R(350), R(85)>>)>>
    ELSE <<>>

\* lines 582-594
RankLabel(d, fonts) ==
    IF d.rank.display
    THEN LET rankFont == Font(TRUE, d.rank.size, fonts.bold)
             text == Label(d.rank, Get(d.rank.data))
         IN <<CallI("rank", "label", "save", <<>>),
              SetI("font", rankFont),
              SetI("fillStyle", OneColour(d.rank.colour)),
              CallI("rank", "label", "fillText",
                    <<text,
                      RatAdd(R(950),
                             Rat(0 - measureText(rankFont, text).n,
                                 measureText(rankFont, text).d)),
                      R(85)>>),
              CallI("rank", "label", "restore", <<>>)>>
    ELSE <<>>

\* what build() runs from the overlay up to the await on the avatar
UpToAvatar(d, canvas, fonts) ==
    Overlay(d, canvas) \o Texts(d, fonts) \o AvatarClip

AfterAvatar_labelsFirst(d, fonts) ==
    AvatarImage(d) \o LevelLabel(d, fonts) \o RankLabel(d, fonts)
    \o Status(d) \o GradientCalls(d) \o ProgressBar(d)

\* what build() runs once the avatar has loaded
AfterAvatar(d, fonts) ==
    AvatarImage(d) \o Status(d) \o GradientCalls(d) \o ProgressBar(d)
    \o LevelLabel(d, fonts) \o RankLabel(d, fonts)

\* canvas.toBuffer(): the encoded picture of everything drawn so far
toBuffer(b) ==
    [width |-> b.canvas.width, height |-> b.canvas.height,
     drawn |-> Len(b.ops)]

\* lines 447-450: a fresh canvas and context for this call
NewBuild(c, d, fonts, id) ==
    LET canvas == createCanvas(id, d.width, d.height)
    IN [card |-> c, fonts |-> OrElse(fonts, DefaultBuildFonts),
        canvas |-> canvas, ctx |-> getContext(canvas), ops |-> <<>>,
        pc |-> "running", buffer |-> None, awaits |-> 0, failed |-> "none"]

\* suspend at `await Canvas.loadImage(...)`
Await(b, pc) == [b EXCEPT !.pc = pc, !.awaits = @ + 1]

\* the awaited loadImage promise rejects: the throw leaves build()
loadFailed_swallowed(b, which) ==
    [b EXCEPT !.pc = "resolved", !.failed = which,
              !.buffer = Some(toBuffer(b))]

loadFailed(b, which) == [b EXCEPT !.pc = "rejected", !.failed = which]

\* build() from its entry to its first await
buildStart(c, d, fonts, id) ==
    LET b == NewBuild(c, d, fonts, id)
    IN IF d.background.type = "image"
       THEN Await(b, "awaitBackground")
       ELSE Await(Run(b, (IF d.background.type = "colour"
                          THEN BackgroundColour(d, b.canvas) ELSE <<>>)
                         \o UpToAvatar(d, b.canvas, b.fonts)),
                  "awaitAvatar")

\* build() from the loaded background image to the await on the avatar
buildAfterBackground(b, d) ==
    Await(Run(b, BackgroundImage(d, b.canvas)
                 \o UpToAvatar(d, b.canvas, b.fonts)),
          "awaitAvatar")

buildAfterAvatar_awaitBuffer(b, d) ==
    LET done == Run(b, AfterAvatar(d, b.fonts))
    IN [Await(done, "resolved") EXCEPT !.buffer = Some(toBuffer(done))]

\* build() from the loaded avatar to `return canvas.toBuffer()`
buildAfterAvatar(b, d) ==
    LET done == Run(b, AfterAvatar(d, b.fonts))
    IN [done EXCEPT !.pc = "resolved", !.buffer = Some(toBuffer(done))]

\* --------------------------------------- RankCard.build (lib/index.d.ts)
ToggleBuildFonts == [regular |-> "Neutra", bold |-> "Neutra"]

\* `${abbreviate(currentXP)}/${abbreviate(requiredXP)}`
progressText(d) ==
    abbreviateText(d.progress.currentXP) \o <<"/">>
    \o abbreviateText(d.progress.requiredXP)

\* (currentXP / requiredXP) * width
Toggle_calculateProgress(d) ==
    RatMul(JsDiv(d.progress.currentXP, d.progress.requiredXP),
           R(d.progress.width))

\* base + 1.03101424979 * width - less: the factor has more digits than the
\* exact arithmetic here carries, so the product is kept as written
Overshoot(base, width, less) ==
    [base |-> base, factor |-> "1.03101424979", times |-> width,
     less |-> less]

\* case 'colour' of the background switch
ToggleBackgroundColour(d, canvas) ==
    <<SetI("fillStyle", OneColour(d.background.value)),
      CallI("background", "colour", "fillRect",
            <<R(0), R(0), R(canvas.width), R(canvas.height)>>)>>

\* case 'image' of the background switch, after the await
ToggleBackgroundImage(d, canvas) ==
    <<CallI("background", "image", "drawImage",
            <<d.background.value, R(0), R(0), R(canvas.width),
              R(canvas.height)>>)>>

\* the overlay, with its alpha reset inside the `if`
ToggleOverlay(d, canvas) ==
    IF d.overlay.display
    THEN <<SetI("globalAlpha", OverlayAlpha(d.overlay.opacity)),
           SetI("fillStyle", OneColour(d.overlay.colour)),
           CallI("overlay", "fill", "fillRect",
                 <<R(20), R(20), R(canvas.width - 40),
                   R(canvas.height - 40)>>),
           SetI("globalAlpha", R(1))>>
    ELSE <<>>

\* the user's tag: `${username}#${discriminator}`
ToggleTag(d, fonts) ==
    IF d.tag.display
    THEN <<SetI("font", Font(TRUE, d.tag.fontSize, fonts.bold)),
           SetI("fillStyle", OneColour(d.tag.fontColour)),
           CallI("text", "tag", "fillText",
                 <<d.tag.username \o <<"#">> \o d.tag.discriminator,
                   R(d.progress.x + 10), R(d.progress.y)>>)>>
    ELSE <<>>

\* the circle of the avatar: centre (x + radius, y + radius)
ToggleAvatarCircle(d) ==
    <<R(d.avatar.x + d.avatar.radius), R(d.avatar.y + d.avatar.radius),
      R(d.avatar.radius), R(0), R(2), TRUE>>

\* the clip of the avatar, up to the await
ToggleAvatarClip(d) ==
    IF d.avatar.display
    THEN <<CallI("avatar", "clip", "save", <<>>),
           CallI("avatar", "clip", "beginPath", <<>>),
           CallI("avatar", "clip", "arc", ToggleAvatarCircle(d)),
           CallI("avatar", "clip", "closePath", <<>>),
           CallI("avatar", "clip", "clip", <<>>)>>
    ELSE <<>>

\* the avatar, after the await
ToggleAvatarImage(d) ==
    <<CallI("avatar", "image", "drawImage",
            <<d.avatar.value, R(d.avatar.x), R(d.avatar.y),
              R(d.avatar.width + 20), R(d.avatar.height + 20)>>),
      CallI("avatar", "image", "restore", <<>>)>>

ToggleStatus_always(d) ==
    <<CallI("status", "ring", "beginPath", <<>>),
      CallI("status", "ring", "arc", ToggleAvatarCircle(d)),
      SetI("strokeStyle", OneColour(d.status.colour)),
      SetI("lineWidth", R(d.status.width)),
      CallI("status", "ring", "stroke", <<>>)>>

\* the status: a dot, or a ring on the circle of the avatar
ToggleStatus(d) ==
    IF ~d.status.display THEN <<>>
    ELSE IF d.status.circle
    THEN <<CallI("status", "dot", "beginPath", <<>>),
           SetI("fillStyle", OneColour(d.status.colour)),
           CallI("status", "dot", "arc",
                 <<R(215), R(205), R(20), R(0), R(2), FALSE>>),
           CallI("status", "dot", "fill", <<>>),
           CallI("status", "dot", "closePath", <<>>)>>
    ELSE <<CallI("status", "ring", "beginPath", <<>>),
           CallI("status", "ring", "arc", ToggleAvatarCircle(d)),
           SetI("strokeStyle", OneColour(d.status.colour)),
           SetI("lineWidth", R(d.status.width)),
           CallI("status", "ring", "stroke", <<>>)>>

\* createRadialGradient(this._calculateProgress(), 0, 500, 0)
ToggleGradientArgs(d) == <<Toggle_calculateProgress(d), R(0), R(500), R(0)>>

\* the gradient of the bar and the fill style it makes
BarColour(d, gradientArgs) ==
    LET colour == d.progress.bar.colour
    IN IF colour.type = "gradient"
       THEN [gradient |-> gradientArgs,
             stops |-> [i \in 1..Len(colour.value.stops) |->
                          <<R(i - 1), colour.value.stops[i]>>]]
       ELSE colour.value

BarGradientCalls(d, gradientArgs) ==
    LET colour == d.progress.bar.colour
    IN IF colour.type = "gradient"
       THEN <<CallI("progressBar", "gradient", "createRadialGradient",
                    gradientArgs)>>
            \o [i \in 1..Len(colour.value.stops) |->
                  CallI("progressBar", "gradient", "addColorStop",
                        <<R(i - 1), colour.value.stops[i]>>)]
       ELSE <<>>

\* the progress piece: the bar and its track, then the progress text, which
\* ends `inset` left of the end of the bar
ProgressPiece(d, fonts, text, gradientArgs, inset) ==
    LET pb == d.progress
        radius == pb.bar.radius
        left == RatAdd(R(pb.x), radius)
        top == RatAdd(R(pb.y), RatSub(pb.height, Rat(5, 4)))
        middle == RatAdd(top, radius)
        capRadius == RatAdd(radius, Rat(1, 4))
        textFont == Font(FALSE, pb.fontSize, fonts.regular)
    IN IF ~pb.display THEN <<>>
       ELSE
        BarGradientCalls(d, gradientArgs) \o
        <<CallI("progressBar", "begin", "beginPath", <<>>)>> \o
        (IF pb.bar.rounded
         THEN <<SetI("fillStyle", OneColour(pb.bar.trackColour)),
                CallI("progressBar", "track", "arc",
                      <<left, middle, radius, Rat(3, 2), Rat(1, 2), TRUE>>),
                CallI("progressBar", "track", "fill", <<>>),
                CallI("progressBar", "track", "fillRect",
                      <<left, top, Overshoot(R(0), pb.width, radius),
                        pb.height>>),
                CallI("progressBar", "track", "arc",
                      <<Overshoot(R(pb.x), pb.width, R(0)), middle,
                        capRadius, Rat(3, 2), Rat(1, 2), FALSE>>),
                CallI("progressBar", "track", "fill", <<>>),
                CallI("progressBar", "fill", "beginPath", <<>>),
                SetI("fillStyle", BarColour(d, gradientArgs)),
                CallI("progressBar", "fill", "arc",
                      <<left, middle, radius, Rat(3, 2), Rat(1, 2), TRUE>>),
                CallI("progressBar", "fill", "fill", <<>>),
                CallI("progressBar", "fill", "fillRect",
                      <<left, top, Toggle_calculateProgress(d), pb.height>>),
                CallI("progressBar", "fill", "arc",
                      <<RatAdd(left, Toggle_calculateProgress(d)), middle,
                        capRadius, Rat(3, 2), Rat(1, 2), FALSE>>),
                CallI("progressBar", "fill", "fill", <<>>)>>
         ELSE <<SetI("fillStyle", BarColour(d, gradientArgs)),
                CallI("progressBar", "fill", "fillRect",
                      <<R(pb.x), R(pb.y), Toggle_calculateProgress(d),
                        pb.height>>),
                CallI("progressBar", "track", "beginPath", <<>>),
                SetI("strokeStyle", OneColour(pb.bar.trackColour)),
                SetI("lineWidth", R(7)),
                CallI("progressBar", "track", "strokeRect",
                      <<R(pb.x), R(pb.y), R(pb.width), pb.height>>)>>)
        \o <<SetI("font", textFont),
              SetI("fillStyle", OneColour(pb.fontColour)),
              CallI("progressBar", "text", "fillText",
                    <<text,
                      RatSub(RatSub(R(pb.x + pb.width),
                                    measureText(textFont, text)), R(inset)),
                      R(pb.y)>>)>>

\* build(): the text ends 10 left of the end of the bar
ToggleProgress(d, fonts, text) ==
    ProgressPiece(d, fonts, text, ToggleGradientArgs(d), 10)

\* `Level ${abbreviate(level.value)}`
ToggleLevel(d, fonts) ==
    IF d.level.display
    THEN <<SetI("font", Font(FALSE, d.level.fontSize, fonts.regular)),
           SetI("fillStyle", OneColour(d.level.fontColour)),
           CallI("level", "label", "fillText",
                 <<LevelText \o <<" ">> \o abbreviateText(d.level.value),
                   R(d.progress.x + 10), R(d.progress.y - 75)>>)>>
    ELSE <<>>

\* abbreviate(rank.value); of a rank that was not given it makes NaN
RankValue(d) ==
    IF IsSome(d.rank.value) THEN abbreviateText(Get(d.rank.value))
    ELSE <<"N", "a", "N">>

\* `Rank ${abbreviate(rank.value)}`, placed by the width of the progress text
\* measured in the font of the rank
RankPiece(d, fonts, text, inset) ==
    LET rankFont == Font(FALSE, d.rank.fontSize, fonts.regular)
    IN IF d.rank.display
       THEN <<SetI("font", rankFont),
              SetI("fillStyle", OneColour(d.rank.fontColour)),
              CallI("rank", "label", "fillText",
                    <<RankText \o <<" ">> \o RankValue(d),
                      RatSub(RatSub(R(d.progress.x + d.progress.width),
                                    measureText(rankFont, text)), R(inset)),
                      R(d.progress.y - 75)>>)>>
       ELSE <<>>

ToggleRank(d, fonts, text) == RankPiece(d, fonts, text, 10)

\* what build() runs from the overlay up to the await on the avatar
ToggleUpToAvatar(d, canvas, fonts) ==
    ToggleOverlay(d, canvas) \o ToggleTag(d, fonts) \o ToggleAvatarClip(d)

\* what build() runs from the status to the last label
ToggleAfterAvatar(d, fonts, text) ==
    ToggleStatus(d) \o ToggleProgress(d, fonts, text)
    \o <<CallI("labels", "begin", "save", <<>>)>>
    \o ToggleLevel(d, fonts) \o ToggleRank(d, fonts, text)
    \o <<CallI("labels", "end", "restore", <<>>)>>

\* the progress text, the canvas and the context of this call
ToggleNewBuild(c, d, fonts, id) ==
    LET canvas == createCanvas(id, d.width, d.height)
    IN [card |-> c, fonts |-> OrElse(fonts, ToggleBuildFonts),
        progressText |-> progressText(d),
        canvas |-> canvas, ctx |-> getContext(canvas), ops |-> <<>>,
        pc |-> "running", buffer |-> None, awaits |-> 0, failed |-> "none"]

\* `return canvas.toBuffer()`
toggleReturn(b) == [b EXCEPT !.pc = "resolved", !.buffer = Some(toBuffer(b))]

\* build() from the overlay on: to the await on the avatar when the avatar
\* is displayed, to the end when it is not
toggleFromOverlay(b, d) ==
    LET upTo == Run(b, ToggleUpToAvatar(d, b.canvas, b.fonts))
    IN IF d.avatar.display
       THEN Await(upTo, "awaitAvatar")
       ELSE toggleReturn(Run(upTo,
                             ToggleAfterAvatar(d, b.fonts, b.progressText)))

\* build() from its entry to its first await, or to its end. No method of
\* this class sets an image background, so no build waits for one.
toggleBuildStart(c, d, fonts, id) ==
    LET b == Run(ToggleNewBuild(c, d, fonts, id),
                 <<SetI("textAlign", "start")>>)
    IN IF d.background.type = "image"
       THEN Await(b, "awaitBackground")
       ELSE toggleFromOverlay(
                Run(b, IF d.background.type = "colour"
                       THEN ToggleBackgroundColour(d, b.canvas) ELSE <<>>),
                d)

\* build() from the loaded background image on
toggleAfterBackground(b, d) ==
    toggleFromOverlay(Run(b, ToggleBackgroundImage(d, b.canvas)), d)

\* build() from the loaded avatar to `return canvas.toBuffer()`
toggleAfterAvatar(b, d) ==
    toggleReturn(Run(b, ToggleAvatarImage(d)
                        \o ToggleAfterAvatar(d, b.fonts, b.progressText)))

\* -------------------------------------- RankCard.render (unnamed/part_000)
\* render(font) draws every text in the one font it is given
RenderFonts(font) == [regular |-> font, bold |-> font]
RenderFontArgs == {None, Some("Custom")}

\* the fields of the card as the arithmetic of render takes them
RenderData(g) ==
    [g EXCEPT !.progress.height = R(@), !.progress.bar.radius = R(@)]

\* createRadialGradient(this.calculateProgress(), 0, 500, 0, null, null)
RenderGradientArgs(g) ==
    <<GeneratorRankCard_calculateProgress(g), R(0), R(500), R(0),
      "null", "null">>

\* `if (this.tagLength > 0)`: false for 0, for a negative length and for
\* undefined
TagLengthApplies(tagLength) == IsSome(tagLength) /\ Get(tagLength) > 0

\* the tag as render formats it: shortened, then stripped of accents
RenderTagText(g) ==
    LET full == g.tag.username \o <<"#">> \o g.tag.discriminator
        short == IF TagLengthApplies(g.tagLength)
                 THEN shorten(full, Get(g.tagLength)) ELSE full
    IN IF g.stripAccents = Some(TRUE) THEN accents(short) ELSE short

RenderTag(g, fonts) ==
    IF g.tag.display
    THEN <<SetI("font", Font(TRUE, g.tag.fontSize, fonts.bold)),
           SetI("fillStyle", OneColour(g.tag.fontColour)),
           CallI("text", "tag", "fillText",
                 <<RenderTagText(g), R(g.progress.x + 10),
                   R(g.progress.y)>>)>>
    ELSE <<>>

\* what render() runs from the overlay up to the await on the avatar
RenderUpToAvatar(g, canvas, fonts) ==
    ToggleOverlay(g, canvas) \o RenderTag(g, fonts)
    \o ToggleAvatarClip(g)

\* what render() runs from the status to the last label: as build() of
\* lib/index.d.ts, with the texts ending at the end of the bar
RenderAfterAvatar(g, fonts, text) ==
    ToggleStatus(g)
    \o ProgressPiece(RenderData(g), fonts, text, RenderGradientArgs(g), 0)
    \o <<CallI("labels", "begin", "save", <<>>)>>
    \o ToggleLevel(g, fonts) \o RankPiece(g, fonts, text, 0)
    \o <<CallI("labels", "end", "restore", <<>>)>>

renderFromOverlay(b, g) ==
    LET upTo == Run(b, RenderUpToAvatar(g, b.canvas, b.fonts))
    IN IF g.avatar.display
       THEN Await(upTo, "awaitAvatar")
       ELSE toggleReturn(Run(upTo,
                             RenderAfterAvatar(g, b.fonts, b.progressText)))

\* render(font) from its entry to its first await. The fields of this class
\* are private and nothing sets them after the constructor.
renderStart(c, g, font, id) ==
    LET b == Run(ToggleNewBuild(c, g, Some(RenderFonts(font)), id),
                 <<SetI("textAlign", "start")>>)
    IN IF g.background.type = "image"
       THEN Await(b, "awaitBackground")
       ELSE renderFromOverlay(
                Run(b, IF g.background.type = "colour"
                       THEN ToggleBackgroundColour(g, b.canvas) ELSE <<>>),
                g)

\* render(font) from the loaded avatar to `return canvas.toBuffer()`
renderAfterAvatar(b, g) ==
    toggleReturn(Run(b, ToggleAvatarImage(g)
                        \o RenderAfterAvatar(g, b.fonts, b.progressText)))

\* new MessageAttachment(buffer, this.config.fileName)
MessageAttachment(buffer, name) == [attachment |-> buffer, name |-> name]

\* =================================================================== state
CardIds == {1, 2}
VARIABLES
    input,       \* the Input each `new RankCard(input)` will be called with
    gconfig,     \* the GeneratorConfig `new CardGenerator(config)` will get
    data,        \* this.data of every constructed builder RankCard
    generator,   \* this.config of the CardGenerator, once constructed
    gcards,      \* the fields of every constructed generator RankCard
    tdata,       \* this._data of every constructed RankCard of lib/index.d.ts
    registered,  \* the Canvas.registerFont calls of the process, in order
    calls,       \* number of setter calls made so far
    builds,      \* the build() calls made so far, each with its own canvas
    ret          \* the last call: its name, its receiver, what it returned

vars ==
    <<input, gconfig, data, generator, gcards, tdata, registered, calls,
      builds, ret>>

NoCall == [op |-> "none", this |-> 0, value |-> 0]

\* the cards this run of the program constructs
Cards == DOMAIN input

\* a bot that renders the spec's scenario for two members
ScenarioInput(c) ==
    MkInput(TestName, IF c = 1 THEN "online" ELSE "idle", 5, Linear100,
            IF c = 1 THEN Some(3) ELSE None, None, None, FALSE)

Start ==
    /\ data = <<>>
    /\ generator = None
    /\ gcards = <<>>
    /\ tdata = <<>>
    /\ registered = <<>>
    /\ calls = 0
    /\ builds = <<>>
    /\ ret = NoCall

\* one card, for either member of the scenario
Init ==
    /\ \E m \in CardIds : input = (1 :> ScenarioInput(m))
    /\ gconfig = GeneratorConfigOf(ScenarioInput(1), None)
    /\ Start

\* two cards side by side
InitCards ==
    /\ input = [c \in CardIds |-> ScenarioInput(c)]
    /\ gconfig = GeneratorConfigOf(ScenarioInput(1), None)
    /\ Start

\* one card and one generator, over every input of WideInputs
InitInputs ==
    /\ \E i \in WideInputs, sc \in PartialColours :
          /\ input = (1 :> i)
          /\ gconfig = GeneratorConfigOf(i, sc)
          /\ (sc # None => i \in MemberInputs)
    /\ Start

\* the ranks a member can have: none, one digit, two digits, thousands
RankArgs == {None} \cup {Some(r) : r \in {0, 3, 12, 2000}}

\* one card, for a member of any rank
InitRanks ==
    /\ \E r \in RankArgs :
          input = (1 :> MkInput(TestName, "online", 5, Linear100, r, None,
                                None, FALSE))
    /\ gconfig = GeneratorConfigOf(ScenarioInput(1), None)
    /\ Start

\* xpForLevel callbacks that put a member anywhere in a level: at its start,
\* part way, within a few percent of its end (99 of 100), at its end
ProgressFunctions ==
    {Linear100} \cup {[n \in 0..(MaxLevel + 1) |-> a * n + 95] : a \in {0, 1}}

\* one card, for a member at any level of any of ProgressFunctions
InitProgress ==
    /\ \E lv \in Levels, f \in ProgressFunctions :
          input = (1 :> MkInput(TestName, "online", lv, f, Some(3), None,
                                None, FALSE))
    /\ gconfig = GeneratorConfigOf(ScenarioInput(1), None)
    /\ Start

\* member names whose tag has fewer and more than 10 characters
TagNames == {TestName, <<"a", "A", "a", "a", "a", "a", "a", "a">>}
\* config.tagLength: omitted, zero, shorter and longer than the tags
TagLengths == {None, Some(0), Some(3), Some(10)}

\* one member and a generator with any tagLength and stripAccents
InitTags ==
    /\ \E u \in TagNames, l \in TagLengths, strip \in BOOLEAN :
          /\ input = (1 :> MkInput(u, "online", 5, Linear100, Some(3), None,
                                   l, strip))
          /\ gconfig = GeneratorConfigOf(input[1], None)
    /\ Start

\* one card, for any member, with and without fonts of its own
InitMembers ==
    /\ \E i \in MemberInputs : input = (1 :> i)
    /\ gconfig = GeneratorConfigOf(ScenarioInput(1), None)
    /\ Start

\* config.fileName: omitted or given
FileNames == {None, Some("card.png")}

\* two members and a generator configured with any of PartialColours
InitGenerator ==
    /\ input = [c \in CardIds |-> ScenarioInput(c)]
    /\ \E sc \in PartialColours, fn \in FileNames :
          gconfig = [GeneratorConfigOf(ScenarioInput(1), sc)
                        EXCEPT !.fileName = fn]
    /\ Start

\* one card built from an input the documentation rules out
InitInvalid ==
    /\ \E i \in InvalidInputs : input = (1 :> i)
    /\ gconfig = GeneratorConfigOf(ScenarioInput(1), None)
    /\ Start

\* ------------------------------------------------------------ constructors
\* new RankCard(input)                                       (src/index.ts)
NewRankCard(c) ==
    /\ c \notin DOMAIN data
    /\ data' = data @@ (c :> RankCard(input[c]))
    /\ registered' = registered \o RankCardFonts(input[c])
    /\ ret' = [op |-> "new RankCard", this |-> c, value |-> c]
    /\ UNCHANGED <<input, gconfig, generator, gcards, tdata, calls, builds>>

\* new CardGenerator(config)                                 (src/index.ts)
NewCardGenerator ==
    /\ generator = None
    /\ generator' = Some(CardGenerator(gconfig))
    /\ registered' = registered \o CardGeneratorFonts(gconfig)
    /\ ret' = [op |-> "new CardGenerator", this |-> 0, value |-> 0]
    /\ UNCHANGED <<input, gconfig, data, gcards, tdata, calls, builds>>

\* new RankCard({...data, ...}) as generateCard calls it  (unnamed/part_000)
NewGeneratorRankCard(c) ==
    /\ generator # None
    /\ c \notin DOMAIN gcards
    /\ gcards' = gcards @@
          (c :> GeneratorRankCard(CardConfigOf(Get(generator), input[c])))
    /\ ret' = [op |-> "new generator RankCard", this |-> c, value |-> c]
    /\ UNCHANGED <<input, gconfig, data, generator, tdata, registered, calls,
                   builds>>

\* new RankCard(input)                                   (lib/index.d.ts)
NewToggleRankCard(c) ==
    /\ c \notin DOMAIN tdata
    /\ tdata' = tdata @@ (c :> ToggleRankCard(input[c]))
    /\ registered' = registered \o ToggleRankCardFonts(input[c])
    /\ ret' = [op |-> "new toggle RankCard", this |-> c, value |-> c]
    /\ UNCHANGED <<input, gconfig, data, generator, gcards, calls, builds>>

\* the argument lists of toggleDisplay: up to MaxPieces names, any of them
\* more than once, of the pieces a caller shows and hides
ToggledPieces == {"avatar", "status", "overlay", "rank", "tag"}
PieceLists == TextsUpTo(ToggledPieces, MaxPieces)

\* card.toggleDisplay(...pieces)
ToggleDisplayOf(c, pieces) ==
    /\ c \in DOMAIN tdata
    /\ calls < MaxSetterCalls
    /\ calls' = calls + 1
    /\ tdata' = [tdata EXCEPT ![c] = toggleDisplay(@, pieces)]
    /\ ret' = [op |-> "toggleDisplay", this |-> c, value |-> c]
    /\ UNCHANGED <<input, gconfig, data, generator, gcards, registered,
                   builds>>

ToggleDisplay(c) == \E pieces \in PieceLists : ToggleDisplayOf(c, pieces)

\* the argument of setStatus: omitted, or whether to draw a dot
CircleArgs == {None, Some(TRUE), Some(FALSE)}

\* this._data.status.circle = circle ?? this._data.status.circle
setStatus(d, circle) == [d EXCEPT !.status.circle = OrElse(circle, @)]

\* card.setStatus(circle)
SetStatus(c) ==
    \E circle \in CircleArgs :
        /\ c \in DOMAIN tdata
        /\ calls < MaxSetterCalls
        /\ calls' = calls + 1
        /\ tdata' = [tdata EXCEPT ![c] = setStatus(@, circle)]
        /\ ret' = [op |-> "setStatus", this |-> c, value |-> c]
        /\ UNCHANGED <<input, gconfig, data, generator, gcards, registered,
                       builds>>

\* card.toggleDisplay(piece) for the avatar or the status
ToggleShown(c) ==
    \E piece \in {"avatar", "status"} : ToggleDisplayOf(c, <<piece>>)

\* generator.statusColours = colours
StatusColourArgs ==
    {[k \in {} |-> ""], [online |-> "#fc85e7"],
     [idle |-> "#123456", dnd |-> "#654321"]}

SetStatusColours(colours) ==
    /\ generator # None
    /\ calls < MaxSetterCalls
    /\ calls' = calls + 1
    /\ generator' = Some(statusColours_set(Get(generator), colours))
    /\ ret' = [op |-> "set statusColours", this |-> 0, value |-> 0]
    /\ UNCHANGED <<input, gconfig, data, gcards, tdata, registered, builds>>

\* ----------------------------------------------------------------- setters
BackgroundArgs == {<<"colour", "#000000">>, <<"image", "bg.png">>}
OverlayColours == {"#112233"}
OverlayLevels == {None, Some(Rat(0, 1))}
OverlayDisplays == {None, Some(FALSE)}
ProgressBarArgs ==
    {<<"colour", OneColour("#ff0000")>>,
     <<"gradient", ColourList(<<"#ff0000", "#00ff00">>)>>}
RoundedArgs == {None, Some(FALSE)}
TrackColours == {"#101010"}

setBackground_resize(d, type, value) ==
    [d EXCEPT !.background.type = type, !.background.value = value,
              !.width = IF type = "image" THEN 1000 ELSE @]

setBackground(d, type, value) ==
    [d EXCEPT !.background.type = type, !.background.value = value]

setOverlay_keepOmitted(d, colour, level, display) ==
    [d EXCEPT !.overlay.colour = colour,
              !.overlay.display = OrElse(display, @),
              !.overlay.level = OrElse(level, @)]

setOverlay(d, colour, level, display) ==
    [d EXCEPT !.overlay.colour = colour,
              !.overlay.display = OrElse(display, TRUE),
              !.overlay.level = OrElse(level, Rat(1, 2))]

setProgressBar(d, type, value, rounded) ==
    [d EXCEPT !.progressBar.bar.type = type,
              !.progressBar.bar.value = value,
              !.progressBar.rounded = OrElse(rounded, TRUE)]

setProgressBarTrack_bar(d, colour) ==
    [d EXCEPT !.progressBar.bar.value = OneColour(colour)]

setProgressBarTrack(d, colour) ==
    [d EXCEPT !.progressBar.track.colour = colour]

Setter(c, op, newData) ==
    /\ c \in DOMAIN data
    /\ calls < MaxSetterCalls
    /\ calls' = calls + 1
    /\ data' = [data EXCEPT ![c] = newData]
    /\ ret' = [op |-> op, this |-> c, value |-> c]
    /\ UNCHANGED <<input, gconfig, generator, gcards, tdata, registered,
                   builds>>

SetBackground(c) ==
    \E a \in BackgroundArgs :
        Setter(c, "setBackground", setBackground(data[c], a[1], a[2]))

SetOverlay(c) ==
    \E col \in OverlayColours, l \in OverlayLevels, dis \in OverlayDisplays :
        Setter(c, "setOverlay", setOverlay(data[c], col, l, dis))

SetProgressBar(c) ==
    \E a \in ProgressBarArgs, r \in RoundedArgs :
        Setter(c, "setProgressBar", setProgressBar(data[c], a[1], a[2], r))

\* the colour lists of a gradient: one to MaxStops colours
GradientColours == {"#ff0000", "#00ff00"}
GradientLists == TextsUpTo(GradientColours, MaxStops) \ {<<>>}

\* card.setProgressBar('gradient', [c1, ..., cn], rounded)
SetGradient(c) ==
    \E stops \in GradientLists, r \in RoundedArgs :
        Setter(c, "setProgressBar",
               setProgressBar(data[c], "gradient", ColourList(stops), r))

SetProgressBarTrack(c) ==
    \E col \in TrackColours :
        Setter(c, "setProgressBarTrack", setProgressBarTrack(data[c], col))

\* ------------------------------------------------------------------- build
Untouched == UNCHANGED <<input, gconfig, data, generator, gcards, tdata,
                         registered,
                         calls>>

\* card.build(fonts): runs up to the first await and returns the promise;
\* at most `max` calls are made, with a fonts argument from `fontArgs`
BuildUpTo(c, max, fontArgs) ==
    \E fonts \in fontArgs :
        /\ c \in DOMAIN data
        /\ Len(builds) < max
        /\ builds' = Append(builds,
                            buildStart(c, data[c], fonts, Len(builds) + 1))
        /\ ret' = [op |-> "build", this |-> c, value |-> Len(builds) + 1]
        /\ Untouched

Build(c) == BuildUpTo(c, MaxBuilds, BuildFontArgs)

\* card.build() without a fonts argument
BuildDefault(c) == BuildUpTo(c, MaxBuilds, {None})

\* a second build() is called while the first one waits for its images
BuildOverlapping(c) == BuildUpTo(c, MaxOverlap, {None})

\* Canvas.loadImage(background.value) resolves
BackgroundLoaded(b) ==
    /\ builds[b].pc = "awaitBackground"
    /\ builds' = [builds EXCEPT
                    ![b] = buildAfterBackground(@, data[builds[b].card])]
    /\ UNCHANGED ret
    /\ Untouched

\* Canvas.loadImage(background.value) rejects
BackgroundFailed(b) ==
    /\ builds[b].pc = "awaitBackground"
    /\ builds' = [builds EXCEPT ![b] = loadFailed(@, "background")]
    /\ UNCHANGED ret
    /\ Untouched

\* Canvas.loadImage(avatar.source) resolves
AvatarLoaded(b) ==
    /\ builds[b].pc = "awaitAvatar"
    /\ builds' = [builds EXCEPT
                    ![b] = buildAfterAvatar(@, data[builds[b].card])]
    /\ UNCHANGED ret
    /\ Untouched

\* Canvas.loadImage(avatar.source) rejects
AvatarFailed(b) ==
    /\ builds[b].pc = "awaitAvatar"
    /\ builds' = [builds EXCEPT ![b] = loadFailed(@, "avatar")]
    /\ UNCHANGED ret
    /\ Untouched

\* card.build() of lib/index.d.ts: runs up to the await on the avatar, or to
\* the end when the avatar is hidden
ToggleBuild(c) ==
    /\ c \in DOMAIN tdata
    /\ Len(builds) < MaxBuilds
    /\ builds' = Append(builds,
                        toggleBuildStart(c, tdata[c], None, Len(builds) + 1))
    /\ ret' = [op |-> "build", this |-> c, value |-> Len(builds) + 1]
    /\ Untouched

\* Canvas.loadImage(avatar.value) resolves
ToggleAvatarLoaded(b) ==
    /\ builds[b].pc = "awaitAvatar"
    /\ builds' = [builds EXCEPT
                    ![b] = toggleAfterAvatar(@, tdata[builds[b].card])]
    /\ UNCHANGED ret
    /\ Untouched

\* Canvas.loadImage(avatar.value) rejects
ToggleAvatarFailed(b) ==
    /\ builds[b].pc = "awaitAvatar"
    /\ builds' = [builds EXCEPT ![b] = loadFailed(@, "avatar")]
    /\ UNCHANGED ret
    /\ Untouched

\* generator.generateCard(data, font): constructs the card and renders it
\* up to the await on the avatar
GenerateCard(c) ==
    \E font \in RenderFontArgs :
        /\ generator # None
        /\ c \notin DOMAIN gcards
        /\ Len(builds) < MaxBuilds
        /\ LET g == GeneratorRankCard(CardConfigOf(Get(generator), input[c]))
           IN /\ gcards' = gcards @@ (c :> g)
              /\ builds' = Append(builds,
                                  renderStart(c, g, OrElse(font, "Neutra"),
                                              Len(builds) + 1))
        /\ ret' = [op |-> "generateCard", this |-> c,
                   value |-> Len(builds) + 1]
        /\ UNCHANGED <<input, gconfig, data, generator, tdata, registered,
                       calls>>

\* Canvas.loadImage(avatar.value) resolves: the card is rendered to its end
\* and generateCard returns the attachment
GenerateAvatarLoaded(b) ==
    /\ builds[b].pc = "awaitAvatar"
    /\ generator # None
    /\ LET done == renderAfterAvatar(builds[b], gcards[builds[b].card])
       IN /\ builds' = [builds EXCEPT ![b] = done]
          /\ ret' = [op |-> "generateCard resolved", this |-> builds[b].card,
                     value |-> MessageAttachment(Get(done.buffer),
                                                 Get(generator).fileName)]
    /\ Untouched

\* Canvas.loadImage(avatar.value) rejects: so does generateCard
GenerateAvatarFailed(b) ==
    /\ builds[b].pc = "awaitAvatar"
    /\ builds' = [builds EXCEPT ![b] = loadFailed(@, "avatar")]
    /\ UNCHANGED ret
    /\ Untouched

\* ---------------------------------------------------------- specifications
Construct ==
    \/ \E c \in Cards : NewRankCard(c)
    \/ NewCardGenerator
    \/ \E c \in Cards : NewGeneratorRankCard(c)

Configure ==
    \/ \E c \in Cards : SetBackground(c)
    \/ \E c \in Cards : SetOverlay(c)
    \/ \E c \in Cards : SetProgressBar(c)
    \/ \E c \in Cards : SetProgressBarTrack(c)

Render ==
    \/ \E c \in Cards : Build(c)
    \/ \E b \in DOMAIN builds : BackgroundLoaded(b)
    \/ \E b \in DOMAIN builds : BackgroundFailed(b)
    \/ \E b \in DOMAIN builds : AvatarLoaded(b)
    \/ \E b \in DOMAIN builds : AvatarFailed(b)

Next == (\E c \in Cards : NewRankCard(c)) \/ Configure \/ Render

NextCards == (\E c \in Cards : NewRankCard(c)) \/ Configure

NextInputs == Construct

\* a builder card: constructed, configured and built
Spec == Init /\ [][Next]_vars

\* two builder cards and their setters
SpecCards == InitCards /\ [][NextCards]_vars

\* the constructors alone, over every input of WideInputs
SpecInputs == InitInputs /\ [][NextInputs]_vars

Loads ==
    \/ \E b \in DOMAIN builds : BackgroundLoaded(b)
    \/ \E b \in DOMAIN builds : BackgroundFailed(b)
    \/ \E b \in DOMAIN builds : AvatarLoaded(b)
    \/ \E b \in DOMAIN builds : AvatarFailed(b)

NextOverlap ==
    \/ \E c \in Cards : NewRankCard(c)
    \/ \E c \in Cards : SetBackground(c)
    \/ \E c \in Cards : BuildOverlapping(c)
    \/ Loads

\* two builder cards whose builds overlap at the image loads
SpecOverlap == InitCards /\ [][NextOverlap]_vars

NextOverlay ==
    \/ \E c \in Cards : NewRankCard(c)
    \/ \E c \in Cards : SetOverlay(c)
    \/ \E c \in Cards : SetBackground(c)
    \/ Render

\* a builder card whose overlay and background are set before it is built
SpecOverlay == Init /\ [][NextOverlay]_vars

NextBar ==
    \/ \E c \in Cards : NewRankCard(c)
    \/ \E c \in Cards : SetBackground(c)
    \/ \E c \in Cards : SetProgressBar(c)
    \/ Render

\* a builder card whose background and progress bar are set before it is
\* built
SpecBar == Init /\ [][NextBar]_vars

NextDefaults ==
    \/ \E c \in Cards : NewRankCard(c)
    \/ \E c \in Cards : SetOverlay(c)
    \/ \E c \in Cards : SetProgressBar(c)
    \/ \E c \in Cards : Build(c)
    \/ \E b \in DOMAIN builds : AvatarLoaded(b)
    \/ \E b \in DOMAIN builds : AvatarFailed(b)

\* a builder card whose overlay and progress bar are set again and again
SpecDefaults == Init /\ [][NextDefaults]_vars

NextToggle ==
    \/ \E c \in Cards : NewToggleRankCard(c)
    \/ \E c \in Cards : ToggleDisplay(c)

\* one card of the variant with toggleDisplay, for a member of any rank
SpecToggle == InitRanks /\ [][NextToggle]_vars

NextStatus ==
    \/ \E c \in Cards : NewToggleRankCard(c)
    \/ \E c \in Cards : ToggleShown(c)
    \/ \E c \in Cards : SetStatus(c)
    \/ \E c \in Cards : ToggleBuild(c)
    \/ \E b \in DOMAIN builds : ToggleAvatarLoaded(b)
    \/ \E b \in DOMAIN builds : ToggleAvatarFailed(b)

\* a card whose status and avatar are shown or hidden, and built
SpecStatus == Init /\ [][NextStatus]_vars

NextRanks ==
    \/ \E c \in Cards : NewRankCard(c)
    \/ \E c \in Cards : SetBackground(c)
    \/ Render

\* a builder card of a member of any rank, built
SpecRanks == InitRanks /\ [][NextRanks]_vars

NextProgress ==
    \/ \E c \in Cards : NewRankCard(c)
    \/ \E c \in Cards : SetProgressBar(c)
    \/ \E c \in Cards : BuildDefault(c)
    \/ \E b \in DOMAIN builds : AvatarLoaded(b)
    \/ \E b \in DOMAIN builds : AvatarFailed(b)

\* a builder card of a member anywhere in a level, its bar set and built
SpecProgress == InitProgress /\ [][NextProgress]_vars

NextTags ==
    \/ NewCardGenerator
    \/ \E c \in Cards : GenerateCard(c)
    \/ \E b \in DOMAIN builds : GenerateAvatarLoaded(b)
    \/ \E b \in DOMAIN builds : GenerateAvatarFailed(b)

\* a generator with any tagLength, rendering the card of one member
SpecTags == InitTags /\ [][NextTags]_vars

NextFonts ==
    \/ \E c \in Cards : NewRankCard(c)
    \/ \E c \in Cards : BuildDefault(c)
    \/ \E b \in DOMAIN builds : AvatarLoaded(b)
    \/ \E b \in DOMAIN builds : AvatarFailed(b)

\* a builder card constructed with any fonts and built without a fonts
\* argument
SpecFonts == InitMembers /\ [][NextFonts]_vars

NextGradient ==
    \/ \E c \in Cards : NewRankCard(c)
    \/ \E c \in Cards : SetGradient(c)
    \/ \E c \in Cards : Build(c)
    \/ \E b \in DOMAIN builds : AvatarLoaded(b)
    \/ \E b \in DOMAIN builds : AvatarFailed(b)

\* a builder card whose progress bar is given gradients of every length
SpecGradient == Init /\ [][NextGradient]_vars

NextSizes ==
    \/ Construct
    \/ \E c \in Cards : SetBackground(c)
    \/ Render

\* a builder card that is built, and a generator with its card
SpecSizes == Init /\ [][NextSizes]_vars

NextGenerator ==
    \/ NewCardGenerator
    \/ \E colours \in StatusColourArgs : SetStatusColours(colours)
    \/ \E c \in Cards : NewGeneratorRankCard(c)

\* a generator whose status colours are set between the cards it generates
SpecGenerator == InitGenerator /\ [][NextGenerator]_vars

\* a builder card constructed from an invalid input, configured and built
SpecInvalid == InitInvalid /\ [][Next]_vars

\* ================================================================== claims
UsernameLengthOf(c) == OrElse(input[c].usernameLength, DefaultUsernameLength)
BarWidth(c) == data[c].progressBar.width

\* C1: for non-negative xpForLevel the progress width of every RankCard
\* variant lies in [0, progress-bar width].
C1_ProgressWithinBar ==
    /\ \A c \in DOMAIN data :
          InRange(calculateProgress(data[c]), RatInt(0), BarWidth(c))
    /\ \A c \in DOMAIN gcards :
          InRange(GeneratorRankCard_calculateProgress(gcards[c]), RatInt(0),
                  RatInt(gcards[c].progress.width))

\* C2: whenever currentXP >= requiredXP (requiredXP <= 0 included),
\* calculateProgress returns exactly the full progress-bar width.
C2_FullBarWhenReached ==
    \A c \in DOMAIN data :
        data[c].currentXP.data >= data[c].requiredXP.data
            => RatEq(calculateProgress(data[c]), BarWidth(c))

\* C3: for requiredXP > 0 and 0 <= currentXP <= requiredXP, calculateProgress
\* returns (currentXP / requiredXP) x progressBar.width.
C3_ProportionalToBarWidth ==
    \A c \in DOMAIN data :
        LET cx == data[c].currentXP.data
            rx == data[c].requiredXP.data
        IN (rx > 0 /\ 0 <= cx /\ cx <= rx)
              => RatEq(calculateProgress(data[c]),
                       RatMul(Rat(cx, rx), BarWidth(c)))

\* C4: shorten is idempotent: shortening the shortened username again with
\* the same length gives the same text.
C4_ShortenIdempotent ==
    \A c \in DOMAIN data :
        ~input[c].stripAccents
            => shorten(data[c].username.data, UsernameLengthOf(c))
                 = data[c].username.data

\* the text is `body` followed by "..."
EndsWithDots(t, body) == t = body \o Dots
\* body is what is left of t after dropping spaces from both ends
IsTrimOf(body, t) ==
    \E i \in 1..(Len(t) + 1), j \in 0..Len(t) :
        /\ body = SubSeq(t, i, j)
        /\ \A k \in 1..Len(t) : (k < i \/ k > j) => t[k] = " "
        /\ body # <<>> => (body[1] # " " /\ body[Len(body)] # " ")

\* C5: shorten returns a text of at most len characters unchanged; otherwise
\* the first len characters, trimmed, followed by "...", at most len + 3 long.
C5_ShortenShape ==
    \A c \in DOMAIN data :
        LET text == input[c].member.username
            len == UsernameLengthOf(c)
            out == data[c].username.data
        IN ~input[c].stripAccents =>
              /\ Len(text) <= len => out = text
              /\ Len(text) > len =>
                    /\ \E body \in TextsUpTo(InputChars, len) :
                          /\ EndsWithDots(out, body)
                          /\ IsTrimOf(body, SubSeq(text, 1, len))
                    /\ Len(out) <= len + 3

C5_Witness ==
    \E c \in DOMAIN data :
        /\ ~input[c].stripAccents
        /\ Len(input[c].member.username) > UsernameLengthOf(c)
        /\ Len(data[c].username.data) < UsernameLengthOf(c) + 3
        /\ Len(data[c].username.data) > 3

DocumentedStatusColours ==
    [online |-> "#43b581", idle |-> "#faa61a", dnd |-> "#f04747",
     offline |-> "#747f8e", streaming |-> "#593595"]

\* C6: with default colours every variant resolves each of the five known
\* statuses to the same fixed '#'-prefixed colour.
C6_DefaultStatusColours ==
    /\ \A c \in DOMAIN data :
          data[c].status.type \in KnownStatuses
              => data[c].status.colour
                   = DocumentedStatusColours[data[c].status.type]
    /\ \A c \in DOMAIN gcards :
          (gconfig.statusColours = None
             /\ gcards[c].status.type \in KnownStatuses)
              => gcards[c].status.colour
                   = DocumentedStatusColours[gcards[c].status.type]

\* C7: a status outside the five known values still resolves to a defined
\* colour when the card is constructed.
C7_UnknownStatusHasColour ==
    \A c \in DOMAIN data :
        data[c].status.type \notin KnownStatuses
            => data[c].status.colour # Undefined

HasStage(ops, stage) == \E i \in 1..Len(ops) : ops[i].stage = stage

\* C8: when the load of the avatar or of a background image fails, build
\* rejects and produces no buffer, although for the avatar the background
\* and the texts are already on the canvas.
C8_FailedLoadRejects ==
    \A b \in DOMAIN builds :
        builds[b].failed # "none" =>
            /\ builds[b].pc = "rejected"
            /\ builds[b].buffer = None
            /\ builds[b].failed = "avatar" =>
                  /\ HasStage(builds[b].ops, "background")
                  /\ HasStage(builds[b].ops, "text")

C8_Witness ==
    \E b \in DOMAIN builds :
        /\ builds[b].failed = "avatar"
        /\ builds[b].pc = "rejected"
        /\ HasStage(builds[b].ops, "overlay")
        /\ HasStage(builds[b].ops, "text")

\* the card data differ at most in the fields the setter owns
OwnFieldsOnly(op, d, e) ==
    CASE op = "setBackground" ->
           e = [d EXCEPT !.background = e.background]
      [] op = "setOverlay" ->
           e = [d EXCEPT !.overlay = e.overlay]
      [] op = "setProgressBar" ->
           e = [d EXCEPT !.progressBar.bar = e.progressBar.bar,
                         !.progressBar.rounded = e.progressBar.rounded]
      [] op = "setProgressBarTrack" ->
           e = [d EXCEPT !.progressBar.track.colour
                           = e.progressBar.track.colour]

SetterFrame(op, c) ==
    /\ ret'.op = op
    /\ ret'.value = c
    /\ DOMAIN data' = DOMAIN data
    /\ \A o \in DOMAIN data \ {c} : data'[o] = data[o]
    /\ OwnFieldsOnly(op, data[c], data'[c])
    /\ UNCHANGED <<generator, gcards, registered, builds>>

\* C9: every setter returns the card it was called on and changes only its
\* own field group of that card.
C9_SettersChangeOwnGroup ==
    [][\A c \in Cards :
          /\ SetBackground(c) => SetterFrame("setBackground", c)
          /\ SetOverlay(c) => SetterFrame("setOverlay", c)
          /\ SetProgressBar(c) => SetterFrame("setProgressBar", c)
          /\ SetProgressBarTrack(c) => SetterFrame("setProgressBarTrack", c)
      ]_vars

C9_Witness ==
    /\ DOMAIN data = {1, 2}
    /\ calls = 2
    /\ ret.op = "setProgressBarTrack"
    /\ ret.value = 2
    /\ data[2].progressBar.track.colour = "#101010"
    /\ data[1].overlay.colour = "#112233"
    /\ data[2].overlay.colour = "#333640"

StageOrder ==
    <<"background", "overlay", "text", "avatar", "status", "progressBar",
      "level", "rank">>
StageIndex(stage) == CHOOSE i \in 1..Len(StageOrder) : StageOrder[i] = stage

\* no call of an earlier stage follows a call of a later one
StagesInOrder(ops) ==
    \A i \in 1..(Len(ops) - 1) :
        StageIndex(ops[i].stage) <= StageIndex(ops[i + 1].stage)

PartCalls(ops, part) ==
    {i \in 1..Len(ops) : ops[i].stage = "progressBar" /\ ops[i].part = part}

\* both parts of the progress bar are drawn, all of `first` before `second`
PartBefore(ops, first, second) ==
    /\ PartCalls(ops, first) # {}
    /\ PartCalls(ops, second) # {}
    /\ \A i \in PartCalls(ops, first), j \in PartCalls(ops, second) : i < j

\* C10 as stated: the stages come in the fixed order and, in every
\* configuration, the track of the progress bar is drawn before its fill.
C10_TrackAlwaysFirst ==
    \A b \in DOMAIN builds :
        /\ StagesInOrder(builds[b].ops)
        /\ builds[b].pc = "resolved" =>
              PartBefore(builds[b].ops, "track", "fill")

\* C10 (amended): build issues its draw steps in the order background,
\* overlay, texts, avatar, status, progress bar, level label, rank label,
\* also across the awaits; within the progress bar the track comes before
\* the fill when the bar is rounded and the fill before the track outline
\* when it is not.
C10_DrawOrder ==
    [][\A b \in DOMAIN builds' :
          /\ StagesInOrder(builds'[b].ops)
          /\ (/\ b \in DOMAIN builds
              /\ builds[b].pc = "awaitAvatar"
              /\ builds'[b].pc = "resolved") =>
                LET d == data[builds[b].card]
                    ops == builds'[b].ops
                IN /\ \A st \in {"background", "text", "avatar", "status",
                                  "progressBar"} : HasStage(ops, st)
                   /\ HasStage(ops, "level") <=> d.level.display
                   /\ HasStage(ops, "rank") <=> d.rank.display
                   /\ IF d.progressBar.rounded
                      THEN PartBefore(ops, "track", "fill")
                      ELSE PartBefore(ops, "fill", "track")
      ]_vars

C10_Witness ==
    \E b \in DOMAIN builds :
        /\ builds[b].pc = "resolved"
        /\ builds[b].awaits = 2
        /\ PartBefore(builds[b].ops, "fill", "track")
        /\ HasStage(builds[b].ops, "overlay")
        /\ HasStage(builds[b].ops, "rank")

\* the draw calls that build b issues in this step
OpsBefore(b) == IF b \in DOMAIN builds THEN Len(builds[b].ops) ELSE 0
NewOps(b) == (OpsBefore(b) + 1)..Len(builds'[b].ops)
IsOverlayFill(op) == op.stage = "overlay" /\ op.part = "fill"

\* C11: when the overlay is displayed its rectangle is filled with a global
\* alpha equal to the overlay opacity of the card, opacity 0 included.
C11_OverlayAlphaIsOpacity ==
    [][\A b \in DOMAIN builds' : \A i \in NewOps(b) :
          IsOverlayFill(builds'[b].ops[i]) =>
              RatEq(builds'[b].ops[i].globalAlpha,
                    data[builds'[b].card].overlay.level)
      ]_vars

AfterOverlay(op) == StageIndex(op.stage) > StageIndex("overlay")

\* C12: in every build, with the overlay displayed or not and whatever its
\* opacity, every draw call issued after the overlay step sees a global
\* alpha of 1.
C12_AlphaResetAfterOverlay ==
    \A b \in DOMAIN builds : \A i \in 1..Len(builds[b].ops) :
        AfterOverlay(builds[b].ops[i]) =>
            RatEq(builds[b].ops[i].globalAlpha, R(1))

C12_Witness ==
    \E b \in DOMAIN builds :
        /\ builds[b].pc = "resolved"
        /\ \E i \in 1..Len(builds[b].ops) :
              /\ IsOverlayFill(builds[b].ops[i])
              /\ builds[b].ops[i].globalAlpha = Rat(1, 2)
        /\ HasStage(builds[b].ops, "progressBar")
        /\ HasStage(builds[b].ops, "rank")

\* build b runs the overlay statements of build() in this step
PassesOverlay(b) ==
    /\ builds'[b].pc = "awaitAvatar"
    /\ (b \notin DOMAIN builds \/ builds[b].pc = "awaitBackground")

\* C13: build fills the overlay rectangle if and only if overlay.display is
\* true when build reaches the overlay; after setOverlay(colour, 0, false)
\* it issues no overlay fill at all.
C13_OverlayFilledIffDisplayed ==
    [][\A b \in DOMAIN builds' :
          (\E i \in NewOps(b) : IsOverlayFill(builds'[b].ops[i]))
             <=> (PassesOverlay(b) /\ data[builds'[b].card].overlay.display)
      ]_vars

C13_Witness ==
    /\ ret.op = "build"
    /\ builds[ret.value].pc = "resolved"
    /\ ~data[ret.this].overlay.display
    /\ RatEq(data[ret.this].overlay.level, R(0))
    /\ ~HasStage(builds[ret.value].ops, "overlay")
    /\ HasStage(builds[ret.value].ops, "background")
    /\ HasStage(builds[ret.value].ops, "progressBar")

\* a rank value was supplied: a positive integer
RankSupplied(c) == IsSome(input[c].rank) /\ Get(input[c].rank) > 0

\* C14: a newly constructed card displays the rank piece exactly when a
\* rank value (a positive integer) was supplied, and always displays the
\* level piece.
C14_RankShownIffSupplied ==
    /\ \A c \in DOMAIN data :
          /\ data[c].rank.display <=> RankSupplied(c)
          /\ data[c].level.display
    /\ \A c \in DOMAIN gcards :
          /\ gcards[c].rank.display <=> RankSupplied(c)
          /\ gcards[c].level.display

C14_Witness ==
    /\ 1 \in DOMAIN data
    /\ 1 \in DOMAIN gcards
    /\ input[1].rank = None
    /\ ~data[1].rank.display
    /\ ~gcards[1].rank.display
    /\ data[1].level.display

ProgressBarFill(op) ==
    op.stage = "progressBar" /\ op.part = "fill" /\ op.name = "fillRect"

\* C15: a card given a negative level or rank, or an xpForLevel that
\* returns a negative value, fails in the constructor or in build before a
\* progress width is computed: no build of such a card draws a progress bar
\* fill.
C15_InvalidInputFails ==
    \A b \in DOMAIN builds :
        ~InputIsValid(input[builds[b].card]) =>
            /\ builds[b].pc # "resolved"
            /\ \A i \in 1..Len(builds[b].ops) :
                  ~ProgressBarFill(builds[b].ops[i])

HasPart(ops, stage, part) ==
    \E i \in 1..Len(ops) : ops[i].stage = stage /\ ops[i].part = part
\* the build has suspended at the load of the background image
BackgroundAwaited(b) ==
    \/ b.pc = "awaitBackground"
    \/ b.failed = "background"
    \/ HasPart(b.ops, "background", "image")
\* the build has suspended at the load of the avatar
AvatarAwaited(b) ==
    b.pc = "awaitAvatar" \/ b.failed = "avatar" \/ b.pc = "resolved"

\* C16: build suspends only at image loads: at the background load exactly
\* when the background type is 'image' as build starts, and once at the
\* avatar load; a build with a colour background that resolves has
\* suspended exactly once.
C16_SuspendsOnlyAtLoads ==
    [][\A b \in DOMAIN builds' :
          LET nb == builds'[b]
          IN /\ b \notin DOMAIN builds =>
                   (nb.pc = "awaitBackground"
                      <=> data[nb.card].background.type = "image")
             /\ nb.awaits = (IF BackgroundAwaited(nb) THEN 1 ELSE 0)
                              + (IF AvatarAwaited(nb) THEN 1 ELSE 0)
             /\ (nb.pc = "resolved" /\ HasPart(nb.ops, "background", "colour"))
                   => nb.awaits = 1
      ]_vars

C16_Witness ==
    \E b \in DOMAIN builds :
        /\ builds[b].pc = "resolved"
        /\ builds[b].awaits = 1
        /\ HasPart(builds[b].ops, "background", "colour")
        /\ HasPart(builds[b].ops, "avatar", "image")

\* every draw call of build b went to the canvas that b created
OwnCanvasOnly(b) ==
    /\ builds[b].ctx.canvas = builds[b].canvas.id
    /\ \A i \in 1..Len(builds[b].ops) :
          builds[b].ops[i].canvas = builds[b].canvas.id

\* C17: overlapping build calls, on the same card or on different cards,
\* share no drawing state: each call has a canvas and a context of its own,
\* all its draw calls go to that canvas, and a step of one call leaves the
\* context and the draw calls of every other call as they were.
C17_BuildsShareNoCanvas ==
    [][/\ \A b \in DOMAIN builds' :
            /\ OwnCanvasOnly(b)'
            /\ \A o \in DOMAIN builds' \ {b} :
                  builds'[o].canvas.id # builds'[b].canvas.id
       /\ \A b \in DOMAIN builds :
            builds'[b] # builds[b] =>
                \A o \in DOMAIN builds \ {b} : builds'[o] = builds[o]
      ]_vars

C17_Witness ==
    /\ Len(builds) = 2
    /\ builds[1].card = builds[2].card
    /\ builds[1].pc = "awaitAvatar"
    /\ HasPart(builds[1].ops, "background", "image")
    /\ builds[2].pc = "resolved"
    /\ HasPart(builds[2].ops, "background", "colour")

\* C18: over all the constructions of a process, no font file is passed to
\* Canvas.registerFont more than once.
C18_FontRegisteredOnce ==
    \A i, j \in DOMAIN registered :
        i # j => registered[i].path # registered[j].path

SizeOf(x) == <<x.width, x.height>>

\* C19 as stated: every canvas has the card's width and height, and these
\* are 934 x 282 in every variant of the card.
C19_Always934x282 ==
    /\ \A c \in DOMAIN data : SizeOf(data[c]) = <<934, 282>>
    /\ \A b \in DOMAIN builds : SizeOf(builds[b].canvas) = <<934, 282>>
    /\ \A c \in DOMAIN gcards :
          SizeOf(GeneratorRankCard_canvasSize(gcards[c])) = <<934, 282>>

\* C19 (amended): every build creates its canvas with the card's width and
\* height and returns a buffer of that size; the size is fixed at
\* construction, 934 x 282 for the builder card and 932 x 284 for the
\* generator card, and no setter or build step changes it.
C19_CanvasDimensions ==
    /\ \A c \in DOMAIN data : SizeOf(data[c]) = <<934, 282>>
    /\ \A b \in DOMAIN builds :
          /\ SizeOf(builds[b].canvas) = SizeOf(data[builds[b].card])
          /\ IsSome(builds[b].buffer) =>
                SizeOf(Get(builds[b].buffer)) = <<934, 282>>
    /\ \A c \in DOMAIN gcards :
          /\ SizeOf(gcards[c]) = <<932, 284>>
          /\ SizeOf(GeneratorRankCard_canvasSize(gcards[c])) = <<932, 284>>

C19_Witness ==
    /\ 1 \in DOMAIN gcards
    /\ calls = MaxSetterCalls
    /\ data[1].background.type = "image"
    /\ \E b \in DOMAIN builds :
          /\ builds[b].pc = "resolved"
          /\ HasPart(builds[b].ops, "background", "image")
          /\ SizeOf(Get(builds[b].buffer)) = <<934, 282>>

\* the generator settings other than the status colours
OtherSettings(gen) == [gen EXCEPT !.statusColours = None]

\* C20: assigning a partial object to generator.statusColours replaces the
\* colours of exactly the keys of that object, leaves the other colours,
\* the other settings and the cards already generated as they were, and a
\* card generated afterwards gets the colour the generator then holds for
\* its status.
C20_StatusColoursSetter ==
    [][/\ \A colours \in StatusColourArgs :
            SetStatusColours(colours) =>
                LET old == Get(Get(generator).statusColours)
                    new == Get(Get(generator').statusColours)
                IN /\ \A k \in DOMAIN colours :
                         k \in DOMAIN new /\ new[k] = colours[k]
                   /\ \A k \in DOMAIN old \ DOMAIN colours :
                         k \in DOMAIN new /\ new[k] = old[k]
                   /\ DOMAIN new = DOMAIN old \cup DOMAIN colours
                   /\ OtherSettings(Get(generator'))
                         = OtherSettings(Get(generator))
                   /\ UNCHANGED <<gcards, data, registered, builds>>
       /\ \A c \in Cards :
            NewGeneratorRankCard(c) =>
                gcards'[c].status.colour
                    = Get(Get(generator).statusColours)[gcards'[c].status.type]
      ]_vars

C20_Witness ==
    /\ DOMAIN gcards = {1, 2}
    /\ calls > 0
    /\ Get(Get(generator).statusColours)["online"] = "#fc85e7"
    /\ Get(Get(generator).statusColours)["idle"] = "#faa61a"
    /\ gcards[1].status.colour = "#fc85e7"
    /\ gcards[2].status.colour = "#faa61a"

\* the caller gave a value for this status colour
ColourGiven(config, k) ==
    /\ IsSome(config.statusColours)
    /\ k \in DOMAIN Get(config.statusColours)
    /\ Get(config.statusColours)[k] # Undefined

\* C21: new CardGenerator(config) leaves each of the five status colours
\* defined (the value given in config, else the built-in default) and
\* fileName as given, else 'RankCard.png'.
C21_GeneratorDefaults ==
    [][NewCardGenerator =>
          LET gen == Get(generator')
              colours == Get(gen.statusColours)
          IN /\ \A k \in KnownStatuses :
                   /\ k \in DOMAIN colours
                   /\ colours[k] # Undefined
                   /\ colours[k] =
                        IF ColourGiven(gconfig, k)
                        THEN Get(gconfig.statusColours)[k]
                        ELSE DocumentedStatusColours[k]
             /\ gen.fileName =
                   Some(OrElse(gconfig.fileName, "RankCard.png"))
      ]_vars

C21_Witness ==
    /\ generator # None
    /\ calls = 0
    /\ gconfig.fileName = None
    /\ IsSome(gconfig.statusColours)
    /\ DOMAIN Get(gconfig.statusColours) = {"online", "idle"}
    /\ Get(gconfig.statusColours)["online"] = Undefined
    /\ Get(Get(generator).statusColours)["online"] = "#43b581"
    /\ Get(Get(generator).statusColours)["idle"] = "#123456"
    /\ Get(generator).fileName = Some("RankCard.png")

\* C22: setOverlay(colour) without level and display sets the level to 0.5
\* and display to true, and setProgressBar(type, value) without rounded
\* sets rounded to true, whatever the card held before.
C22_OmittedArgumentsReset ==
    [][\A c \in Cards :
          /\ \A col \in OverlayColours :
                Setter(c, "setOverlay", setOverlay(data[c], col, None, None))
                   => data'[c].overlay
                        = [colour |-> col, level |-> Rat(1, 2),
                           display |-> TRUE]
          /\ \A a \in ProgressBarArgs :
                Setter(c, "setProgressBar",
                       setProgressBar(data[c], a[1], a[2], None))
                   => /\ data'[c].progressBar.rounded
                      /\ data'[c].progressBar.bar
                           = [type |-> a[1], value |-> a[2]]
      ]_vars

\* a build that found the overlay hidden, then setOverlay(colour)
C22_Witness ==
    /\ ret.op = "setOverlay"
    /\ calls = 2
    /\ data[1].overlay = [colour |-> "#112233", level |-> Rat(1, 2),
                          display |-> TRUE]
    /\ \E b \in DOMAIN builds :
          /\ HasStage(builds[b].ops, "text")
          /\ ~HasStage(builds[b].ops, "overlay")

\* the number of times a piece is named in an argument list
Occurrences(piece, pieces) ==
    Cardinality({i \in 1..Len(pieces) : pieces[i] = piece})

\* C23: toggleDisplay flips the display flag of each named piece once per
\* occurrence, leaves every other flag and every other field as it was,
\* returns the card it was called on, and a second call with the same
\* names restores the card data.
C23_ToggleDisplay ==
    [][\A c \in Cards : \A pieces \in PieceLists :
         ToggleDisplayOf(c, pieces) =>
            /\ \A piece \in Pieces :
                 /\ tdata'[c][piece].display =
                      (IF Occurrences(piece, pieces) % 2 = 1
                       THEN ~tdata[c][piece].display
                       ELSE tdata[c][piece].display)
                 /\ [tdata'[c][piece] EXCEPT
                        !.display = tdata[c][piece].display]
                      = tdata[c][piece]
            /\ \A field \in DOMAIN tdata[c] \ Pieces :
                 tdata'[c][field] = tdata[c][field]
            /\ DOMAIN tdata'[c] = DOMAIN tdata[c]
            /\ toggleDisplay(tdata'[c], pieces) = tdata[c]
            /\ ret'.value = c /\ ret'.this = c]_vars

\* a card whose avatar was hidden by one toggle and whose rank, hidden at
\* construction, was shown by it
C23_Witness ==
    \E c \in DOMAIN tdata :
        /\ ret.op = "toggleDisplay" /\ ret.this = c
        /\ calls = 1
        /\ ~tdata[c].avatar.display
        /\ tdata[c].rank.display /\ ~Truthy(input[c].rank)
        /\ tdata[c].tag.display

\* C24: every colour stop added to the gradient of the progress bar has an
\* offset within [0, 1], whatever the number of colours in the list.
C24_StopOffsetsInRange ==
    \A b \in DOMAIN builds : \A i \in 1..Len(builds[b].ops) :
        builds[b].ops[i].name = "addColorStop" =>
            InRange(builds[b].ops[i].args[1], R(0), R(1))

\* the builds that return their buffer in this step
Returning == {b \in DOMAIN builds' :
                /\ builds'[b].pc = "resolved"
                /\ (b \in DOMAIN builds => builds[b].pc # "resolved")}
\* the positions of the calls of a stage with one of the given names
StageCalls(ops, stage, names) ==
    {i \in 1..Len(ops) : ops[i].stage = stage /\ ops[i].name \in names}
Circle(args) == <<args[1], args[2], args[3]>>

\* C25: a render of a card whose status is displayed draws exactly one
\* presence indicator, in the status colour resolved at construction: a
\* filled dot when status.circle is set, otherwise a ring stroked on the
\* circle the avatar is clipped to; a render of a card whose status is
\* hidden draws none.
C25_OneStatusIndicator ==
    [][\A b \in Returning :
         LET c == builds'[b].card
             d == tdata[c]
             ops == builds'[b].ops
             drawn == StageCalls(ops, "status", {"fill", "stroke"})
             arcs == StageCalls(ops, "status", {"arc"})
             clips == StageCalls(ops, "avatar", {"arc"})
             colour == OneColour(Lookup(Toggle_STATUS_COLOURS,
                                        input[c].member.status))
         IN IF ~d.status.display
            THEN StageCalls(ops, "status",
                            {ops[i].name : i \in 1..Len(ops)}) = {}
            ELSE /\ Cardinality(drawn) = 1
                 /\ Cardinality(arcs) = 1
                 /\ \A i \in drawn : \A a \in arcs :
                      /\ a < i
                      /\ IF d.status.circle
                         THEN /\ ops[i].name = "fill"
                              /\ ops[i].fillStyle = colour
                              /\ Circle(ops[a].args) = <<R(215), R(205), R(20)>>
                         ELSE /\ ops[i].name = "stroke"
                              /\ ops[i].strokeStyle = colour
                              /\ Circle(ops[a].args)
                                   = Circle(ToggleAvatarCircle(d))
                              /\ \A k \in clips :
                                   Circle(ops[k].args) = Circle(ops[a].args)
      ]_vars

\* a finished render with the avatar clipped and the status ring stroked
C25_Witness ==
    \E b \in DOMAIN builds :
        /\ builds[b].pc = "resolved"
        /\ builds[b].card \in DOMAIN tdata
        /\ StageCalls(builds[b].ops, "avatar", {"arc"}) # {}
        /\ \E i \in StageCalls(builds[b].ops, "status", {"stroke"}) :
              builds[b].ops[i].strokeStyle = OneColour("#faa61a")

\* where a text drawn by fillText(text, x, y) ends on the right: x is the
\* left edge of a text aligned 'start', its middle when aligned 'center'
RightEdge(op) ==
    LET width == measureText(op.font, op.args[1])
    IN IF op.textAlign = "start" THEN RatAdd(op.args[2], width)
       ELSE IF op.textAlign = "center"
       THEN RatAdd(op.args[2], RatMul(width, Rat(1, 2)))
       ELSE op.args[2]
IsRankLabel(op) == op.stage = "rank" /\ op.name = "fillText"

\* C26: the rank label is drawn at a fixed right edge minus its own measured
\* width, so that it ends at that right edge (950) for every rank value.
C26_RankRightEdgeFixed ==
    \A b \in DOMAIN builds : \A i \in 1..Len(builds[b].ops) :
        IsRankLabel(builds[b].ops[i]) =>
            /\ RatEq(builds[b].ops[i].args[2],
                     RatSub(R(950), measureText(builds[b].ops[i].font,
                                                builds[b].ops[i].args[1])))
            /\ RatEq(RightEdge(builds[b].ops[i]), R(950))

\* the right caps of the rounded bar: the arcs drawn clockwise
RightCaps(ops, part) ==
    {i \in 1..Len(ops) :
        /\ ops[i].stage = "progressBar" /\ ops[i].part = part
        /\ ops[i].name = "arc" /\ ops[i].args[6] = FALSE}

\* C27: with a rounded bar and 0 <= currentXP <= requiredXP, requiredXP > 0,
\* the right cap of the fill is centred at or left of the right cap of the
\* track, and on it only at full progress (currentXP = requiredXP).
C27_FillWithinTrack ==
    \A b \in DOMAIN builds :
        LET d == data[builds[b].card]
            ops == builds[b].ops
            cx == d.currentXP.data
            rx == d.requiredXP.data
        IN (0 <= cx /\ cx <= rx /\ rx > 0) =>
              \A f \in RightCaps(ops, "fill") : \A t \in RightCaps(ops, "track") :
                  /\ RatLE(ops[f].args[1], ops[t].args[1])
                  /\ RatEq(ops[f].args[1], ops[t].args[1]) => cx = rx

IsTag(op) == op.stage = "text" /\ op.part = "tag" /\ op.name = "fillText"
FullTag(g) ==
    LET full == g.tag.username \o <<"#">> \o g.tag.discriminator
    IN IF g.stripAccents = Some(TRUE) THEN accents(full) ELSE full
ShortTag(g, len) ==
    LET short == shorten(g.tag.username \o <<"#">> \o g.tag.discriminator,
                         len)
    IN IF g.stripAccents = Some(TRUE) THEN accents(short) ELSE short

\* C28: a card rendered by a generator that was created without tagLength
\* has its tag shortened to 10 characters; a generator with a positive
\* tagLength shortens to that length, and only one with a tagLength of 0 or
\* less draws the tag in full.
C28_DefaultTagLength ==
    \A b \in DOMAIN builds : \A i \in 1..Len(builds[b].ops) :
        IsTag(builds[b].ops[i]) =>
            LET g == gcards[builds[b].card]
                tagLength == gconfig.tagLength
                drawn == builds[b].ops[i].args[1]
            IN drawn = (IF ~IsSome(tagLength) THEN ShortTag(g, 10)
                        ELSE IF Get(tagLength) > 0
                        THEN ShortTag(g, Get(tagLength))
                        ELSE FullTag(g))

\* the families registered in the process so far
RegisteredFamilies == {registered[k].family : k \in 1..Len(registered)}

\* C29: whatever fonts a card was constructed with, every text that a
\* build() without a fonts argument draws is in a font family that has been
\* registered by then.
C29_DefaultFontRegistered ==
    [][\A b \in DOMAIN builds' : \A i \in NewOps(b) :
          builds'[b].ops[i].name = "fillText" =>
              builds'[b].ops[i].font.family \in RegisteredFamilies
      ]_vars

\* the calls a build suspended at the avatar load issues once it resumes
\* with the card data d
StepsOnResume(b, d) ==
    LET done == buildAfterAvatar(b, d)
    IN SubSeq(done.ops, Len(b.ops) + 1, Len(done.ops))

\* C30: a build draws the configuration its card had when build() was
\* called: no step of the card changes what a build suspended at the avatar
\* load draws after it resumes, and the steps of a build leave the card data
\* as it was.
C30_BuildReflectsCallTime ==
    [][/\ \A b \in DOMAIN builds :
            builds[b].pc = "awaitAvatar" =>
                StepsOnResume(builds[b], data'[builds[b].card])
                    = StepsOnResume(builds[b], data[builds[b].card])
       /\ builds' # builds => data' = data
      ]_vars

====
